---- MODULE Spec2Model ----
(***************************************************************************)
(* Retrieval-and-session engine of the conversational RAG service:         *)
(*   - ConversationMemoryManager  (backend/app/memory/conversation.py)     *)
(*   - VectorStoreService         (backend/app/rag/vector_store.py)        *)
(*   - the chat request handlers  (backend/app/api/chat.py)                *)
(*                                                                         *)
(* All request handlers are `async def` coroutines on one event loop: a    *)
(* handler runs without interruption from one suspension point (await,     *)
(* yield) to the next.  An action of this module is one such run.          *)
(***************************************************************************)
EXTENDS Integers, Sequences, FiniteSets, TLC

VARIABLES
    histories,          \* ConversationMemoryManager._histories: session_id -> list of messages
    turnLog,            \* ghost: per session, every message add_turn appended since the session was (re)created
    turnNo,             \* ghost: per session, the number of add_turn calls ever made on it
    memory_initialized, \* ConversationMemoryManager._initialized
    vector_store,       \* VectorStoreService._vector_store: None, or Some(the stored chunks in slot order)
    document_metadata,  \* VectorStoreService._document_metadata: document_id -> DocumentMetadata
    disk,               \* the persisted directory: [index, metadata]
    initialized,        \* VectorStoreService._initialized
    deleted,            \* ghost: ids delete_document returned True for and that were not inserted since
    lastOp,             \* the operation that made the last step, its arguments and its return value
    req,                \* the chat requests in flight: per request, where its handler is suspended and its locals
    task,               \* the store requests in flight: per handler task, the statement it has reached and its arguments
    loop                \* the event loop: None when free, Some(t) while task t runs between two suspension points

vars == <<histories, turnLog, turnNo, memory_initialized, vector_store, document_metadata, disk,
          initialized, deleted, lastOp, req, task, loop>>

memVars == <<histories, turnLog, turnNo, memory_initialized>>
storeVars == <<vector_store, document_metadata, disk, initialized, deleted>>
chatVars == <<req>>
taskVars == <<task, loop>>

(***************************************************************************)
(* Bounds of the model and constants of the program.                       *)
(***************************************************************************)
MaxTurns == 12                 \* add_turn calls in one run
MaxMessages == 20              \* conversation.py:96-97
DefaultNTurns == 3             \* conversation.py:45

Sessions == {"s1", "s2"}
NTurnsArgs == {0, 1, DefaultNTurns}

\* Optional[X]: None, or Some(x) whose value is opt[1]
None == <<>>
Some(x) == <<x>>
EmptyMap == <<>>

\* f restricted to the keys in S
Restrict(f, S) == IF S = {} THEN EmptyMap ELSE [x \in S |-> f[x]]

(***************************************************************************)
(* Python helpers.                                                         *)
(***************************************************************************)
Max(a, b) == IF a >= b THEN a ELSE b
Min(a, b) == IF a <= b THEN a ELSE b

\* lst[start:] with Python's slice clamping (start may be negative)
PySliceFrom(lst, start) ==
    LET n == Len(lst)
        lo == IF start < 0 THEN Max(n + start, 0) ELSE Min(start, n)
    IN  SubSeq(lst, lo + 1, n)

\* lst[:stop] for stop >= 0
PySliceTo(lst, stop) == SubSeq(lst, 1, Min(stop, Len(lst)))

(***************************************************************************)
(* ConversationMemoryManager                                               *)
(***************************************************************************)
UserMsg(c) == [role |-> "user", content |-> c]
AssistantMsg(c) == [role |-> "assistant", content |-> c]

\* the session map after `if session_id not in self._histories: ... = []`
ensure_session(hs, session_id) ==
    IF session_id \in DOMAIN hs THEN hs ELSE hs @@ (session_id :> <<>>)

\* get_history: the session map afterwards; the returned list is [session_id] of it
get_history(hs, session_id) == ensure_session(hs, session_id)

\* the lines get_recent_context joins with "\n": <<"Human" | "Assistant", content>>
get_recent_context(hs, session_id, n_turns) ==
    LET history == get_history(hs, session_id)[session_id]
        recent == PySliceFrom(history, -(n_turns * 2))
    IN  IF history = <<>> THEN <<>>
        ELSE [i \in 1..Len(recent) |->
                <<IF recent[i].role = "user" THEN "Human" ELSE "Assistant",
                  recent[i].content>>]

add_turn_untrimmed(hs, session_id, user_message, assistant_message) ==
    LET h0 == ensure_session(hs, session_id)
        h2 == Append(Append(h0[session_id], UserMsg(user_message)),
                     AssistantMsg(assistant_message))
    IN  [h0 EXCEPT ![session_id] = h2]

add_turn_user_only(hs, session_id, user_message, assistant_message) ==
    LET h0 == ensure_session(hs, session_id)
        h2 == Append(h0[session_id], UserMsg(user_message))
    IN  [h0 EXCEPT ![session_id] =
            IF Len(h2) > MaxMessages THEN PySliceFrom(h2, -MaxMessages) ELSE h2]

add_turn_trim19(hs, session_id, user_message, assistant_message) ==
    LET h0 == ensure_session(hs, session_id)
        h2 == Append(Append(h0[session_id], UserMsg(user_message)),
                     AssistantMsg(assistant_message))
    IN  [h0 EXCEPT ![session_id] =
            IF Len(h2) > MaxMessages THEN PySliceFrom(h2, -(MaxMessages - 1)) ELSE h2]

add_turn_expires_full_session(hs, session_id, user_message, assistant_message) ==
    LET h0 == ensure_session(hs, session_id)
        h2 == Append(Append(h0[session_id], UserMsg(user_message)),
                     AssistantMsg(assistant_message))
    IN  IF Len(h2) > MaxMessages THEN Restrict(h0, DOMAIN h0 \ {session_id})
        ELSE [h0 EXCEPT ![session_id] = h2]

add_turn_into_every_session(hs, session_id, user_message, assistant_message) ==
    LET h0 == ensure_session(hs, session_id)
    IN  [b \in DOMAIN h0 |->
            LET h2 == Append(Append(h0[b], UserMsg(user_message)),
                             AssistantMsg(assistant_message))
            IN  IF Len(h2) > MaxMessages THEN PySliceFrom(h2, -MaxMessages) ELSE h2]

\* add_turn: the session map afterwards
add_turn(hs, session_id, user_message, assistant_message) ==
    LET h0 == ensure_session(hs, session_id)
        h2 == Append(Append(h0[session_id], UserMsg(user_message)),
                     AssistantMsg(assistant_message))
    IN  [h0 EXCEPT ![session_id] =
            IF Len(h2) > MaxMessages THEN PySliceFrom(h2, -MaxMessages) ELSE h2]

clear_session_empties_map(hs, session_id) ==
    LET existed == session_id \in DOMAIN hs
    IN  <<existed, IF existed THEN EmptyMap ELSE hs>>

\* clear_session: <<returned bool, session map afterwards>>
clear_session(hs, session_id) ==
    LET existed == session_id \in DOMAIN hs
    IN  <<existed,
          IF existed THEN Restrict(hs, DOMAIN hs \ {session_id}) ELSE hs>>

\* clear_all: <<returned count, session map afterwards>>
clear_all(hs) == <<Cardinality(DOMAIN hs), EmptyMap>>

list_sessions(hs) == DOMAIN hs

(***************************************************************************)
(* VectorStoreService                                                      *)
(*                                                                         *)
(* The FAISS index with its docstore is the sequence of stored chunks in   *)
(* slot order.  A text's embedding enters only through the distance        *)
(* between a query and a chunk text, in hundredths.  A string is the       *)
(* sequence of the pieces it is formatted from: the raw query "sky" is     *)
(* <<"sky">>.                                                              *)
(***************************************************************************)
DocIds == {"d1", "d2"}
Texts == {"sky", "stock"}
Str(text) == <<text>>
Queries == {Str("sky"), Str("stock"), Str("color")}

MaxIndexLen == 3               \* chunks in the index in one run
DefaultTopK == 5               \* config.py:39
DefaultThreshold == 300        \* config.py:40 (0.3, in thousandths)

Ks == {1, DefaultTopK}
Thresholds == {None, Some(500), Some(1000)}

\* squared L2 distance between the normalized embeddings of two texts, x100
TextDistance(a, b) ==
    IF a = b THEN 0
    ELSE IF {a, b} = {"color", "sky"} THEN 80
    ELSE IF {a, b} = {"sky", "stock"} THEN 180
    ELSE 250

\* the distance of a chunk text from a query: a query that carries more than
\* the question (the last piece) lies further from every text
Distance(query, text) ==
    IF Len(query) = 1
    THEN TextDistance(query[1], text)
    ELSE TextDistance(query[Len(query)], text) + 40

\* similarity = 1 / (1 + distance), in thousandths
Similarity(distance) == (1000 * 100) \div (100 + distance)

\* the non-empty chunk lists chunk_text hands to the store
ChunkSets == {<<"sky">>, <<"stock">>, <<"sky", "sky">>, <<"sky", "stock">>}

\* generate_chunk_id
generate_chunk_id(document_id, chunk_index) == <<document_id, "chunk", chunk_index>>

Filename(document_id) == <<"file", document_id>>

\* the Documents ingest_document builds for one file: texts zipped with metadatas
Documents(document_id, texts) ==
    [i \in 1..Len(texts) |->
        [page_content |-> texts[i],
         document_id  |-> document_id,
         chunk_id     |-> generate_chunk_id(document_id, i - 1),
         chunk_index  |-> i - 1,
         filename     |-> Filename(document_id)]]

\* the DocumentMetadata ingest_document builds for one file
DocMeta(document_id, texts, now) ==
    [document_id  |-> document_id,
     filename     |-> Filename(document_id),
     file_type    |-> "txt",
     chunk_count  |-> Len(texts),
     created_at   |-> [datetime |-> now],
     content_hash |-> <<"sha256", texts>>,
     status       |-> "indexed"]

\* meta.model_dump(mode="json"): the datetime becomes its ISO-8601 string
model_dump_json(meta) == [meta EXCEPT !.created_at = [iso |-> meta.created_at.datetime]]

\* DocumentMetadata(**meta): the ISO-8601 string is parsed back into a datetime
DocumentMetadata(json) == [json EXCEPT !.created_at = [datetime |-> json.created_at.iso]]

\* a file of the directory: missing, unreadable, or holding `content`
Absent == [state |-> "absent"]
Corrupt == [state |-> "corrupt"]
File(content) == [state |-> "ok", content |-> content]
EmptyDir == [index |-> Absent, metadata |-> Absent]

\* _load_metadata: the metadata map afterwards, `current` being the map before
load_metadata(current, d) ==
    IF d.metadata = Absent THEN current
    ELSE IF d.metadata = Corrupt THEN EmptyMap
    ELSE LET data == d.metadata.content
         IN  Restrict([id \in DOMAIN data |-> DocumentMetadata(data[id])], DOMAIN data)

\* _create_new_store
create_new_store == <<None, EmptyMap>>

load_store_reads_metadata_first(d) ==
    IF d.index # Absent
    THEN IF d.index = Corrupt
         THEN <<None, load_metadata(EmptyMap, d)>>
         ELSE <<Some(d.index.content), load_metadata(EmptyMap, d)>>
    ELSE create_new_store

\* _load_store, called by _initialize on an empty store: <<_vector_store, _document_metadata>>
load_store(d) ==
    IF d.index # Absent
    THEN IF d.index = Corrupt
         THEN create_new_store
         ELSE <<Some(d.index.content), load_metadata(EmptyMap, d)>>
    ELSE create_new_store

\* _save_metadata: the metadata.json written
save_metadata(meta) ==
    Restrict([id \in DOMAIN meta |-> model_dump_json(meta[id])], DOMAIN meta)

save_store_index_only(vs, meta, d) ==
    IF vs # None THEN [d EXCEPT !.index = File(vs[1])] ELSE d

\* _save_store: the directory afterwards
save_store(vs, meta, d) ==
    IF vs # None
    THEN [index |-> File(vs[1]), metadata |-> File(save_metadata(meta))]
    ELSE d

\* what a failing save leaves of the file it was writing: the file as it was
\* (nothing written yet) or an unreadable partial file
SaveFailures == {"index", "metadata"}
Partial(file, torn) == IF torn THEN Corrupt ELSE file

\* _save_store when `failure` raises: save_local raising skips _save_metadata,
\* an exception in _save_metadata leaves the index written; <<directory, raised>>,
\* both exceptions being caught and logged
save_store_failing(vs, meta, d, failure, torn) ==
    IF vs = None THEN <<d, FALSE>>
    ELSE IF failure = "index"
    THEN <<[d EXCEPT !.index = Partial(d.index, torn)], FALSE>>
    ELSE <<[index |-> File(vs[1]), metadata |-> Partial(d.metadata, torn)], FALSE>>

add_documents_no_metadata(vs, meta, d, documents, document_meta) ==
    LET vs1 == IF vs = None THEN Some(documents) ELSE Some(vs[1] \o documents)
    IN  <<vs1, meta, save_store(vs1, meta, d)>>

add_documents_drop_last(vs, meta, d, documents, document_meta) ==
    LET kept == SubSeq(documents, 1, Len(documents) - 1)
        vs1 == IF vs = None THEN Some(kept) ELSE Some(vs[1] \o kept)
        meta1 == (document_meta.document_id :> document_meta) @@ meta
    IN  <<vs1, meta1, save_store(vs1, meta1, d)>>

add_documents_only_into_new_index(vs, meta, d, documents, document_meta) ==
    LET vs1 == IF vs = None THEN Some(documents)
               ELSE IF vs[1] = <<>> THEN vs ELSE Some(vs[1] \o documents)
        meta1 == (document_meta.document_id :> document_meta) @@ meta
    IN  <<vs1, meta1, save_store(vs1, meta1, d)>>

\* add_documents: <<_vector_store, _document_metadata, directory>> afterwards
add_documents(vs, meta, d, documents, document_meta) ==
    LET vs1 == IF vs = None THEN Some(documents) ELSE Some(vs[1] \o documents)
        meta1 == (document_meta.document_id :> document_meta) @@ meta
    IN  <<vs1, meta1, save_store(vs1, meta1, d)>>

\* the index slots holding a chunk of the document
SlotsOf(vs, document_id) ==
    IF vs = None THEN {} ELSE {i \in 1..Len(vs[1]) : vs[1][i].document_id = document_id}

\* FAISS.delete: the index without the given slots, the other chunks in order
RECURSIVE WithoutSlots(_, _)
WithoutSlots(index, slots) ==
    IF index = <<>> THEN <<>>
    ELSE LET rest == WithoutSlots(SubSeq(index, 1, Len(index) - 1), slots)
         IN  IF Len(index) \in slots THEN rest ELSE Append(rest, index[Len(index)])

delete_document_keep_chunks(vs, meta, d, document_id) ==
    IF document_id \notin DOMAIN meta
    THEN <<FALSE, vs, meta, d>>
    ELSE LET meta1 == Restrict(meta, DOMAIN meta \ {document_id})
         IN  <<TRUE, vs, meta1, save_store(vs, meta1, d)>>

delete_document_saves_on_miss(vs, meta, d, document_id) ==
    IF document_id \notin DOMAIN meta
    THEN <<FALSE, vs, meta, save_store(vs, meta, d)>>
    ELSE LET vs1 == IF vs # None
                      THEN Some(WithoutSlots(vs[1], SlotsOf(vs, document_id)))
                      ELSE vs
             meta1 == Restrict(meta, DOMAIN meta \ {document_id})
         IN  <<TRUE, vs1, meta1, save_store(vs1, meta1, d)>>

delete_document_true_on_miss(vs, meta, d, document_id) ==
    IF document_id \notin DOMAIN meta
    THEN <<TRUE, vs, meta, d>>
    ELSE LET vs1 == IF vs # None
                      THEN Some(WithoutSlots(vs[1], SlotsOf(vs, document_id)))
                      ELSE vs
             meta1 == Restrict(meta, DOMAIN meta \ {document_id})
         IN  <<TRUE, vs1, meta1, save_store(vs1, meta1, d)>>

\* delete_document: <<returned bool, _vector_store, _document_metadata, directory>> afterwards
delete_document(vs, meta, d, document_id) ==
    IF document_id \notin DOMAIN meta
    THEN <<FALSE, vs, meta, d>>
    ELSE LET vs1 == IF vs # None
                      THEN Some(WithoutSlots(vs[1], SlotsOf(vs, document_id)))
                      ELSE vs
             meta1 == Restrict(meta, DOMAIN meta \ {document_id})
         IN  <<TRUE, vs1, meta1, save_store(vs1, meta1, d)>>

clear_keeps_files(vs, meta, d) == <<None, EmptyMap, d>>

\* clear: <<_vector_store, _document_metadata, directory>> afterwards
clear(vs, meta, d) == <<None, EmptyMap, EmptyDir>>

get_all_documents(meta) == {meta[id] : id \in DOMAIN meta}

get_document(meta, document_id) ==
    IF document_id \in DOMAIN meta THEN Some(meta[document_id]) ELSE None

is_ready(init) == init

\* slot i is nearer to the query than slot j (ties go to the lower slot)
Nearer(index, query, i, j) ==
    LET di == Distance(query, index[i].page_content)
        dj == Distance(query, index[j].page_content)
    IN  di < dj \/ (di = dj /\ i < j)

\* the number of slots nearer to the query than slot i
Rank(index, query, i) == Cardinality({j \in 1..Len(index) : Nearer(index, query, j, i)})

\* FAISS.similarity_search_with_score: the min(k, n) nearest chunks with their
\* distances, nearest first
similarity_search_with_score(index, query, k) ==
    LET n == Min(k, Len(index))
    IN  [r \in 1..n |->
            LET i == CHOOSE j \in 1..Len(index) : Rank(index, query, j) = r - 1
            IN  <<index[i], Distance(query, index[i].page_content)>>]

\* the hits of `results` whose similarity reaches the threshold, in order
RECURSIVE FilterByThreshold(_, _)
FilterByThreshold(results, threshold) ==
    IF results = <<>> THEN <<>>
    ELSE LET rest == FilterByThreshold(SubSeq(results, 1, Len(results) - 1), threshold)
             last == results[Len(results)]
             similarity == Similarity(last[2])
         IN  IF similarity >= threshold
             THEN Append(rest, <<last[1], similarity>>)
             ELSE rest

\* `score_threshold or settings.retrieval_score_threshold`
ThresholdOrDefault(score_threshold) ==
    IF score_threshold = None \/ score_threshold[1] = 0
    THEN DefaultThreshold
    ELSE score_threshold[1]

similarity_search_first_only(vs, query, k, score_threshold) ==
    IF vs = None THEN <<>>
    ELSE FilterByThreshold(similarity_search_with_score(vs[1], query, 1),
                           ThresholdOrDefault(score_threshold))

similarity_search_unfiltered(vs, query, k, score_threshold) ==
    IF vs = None THEN <<>>
    ELSE FilterByThreshold(similarity_search_with_score(vs[1], query, k), 0)

\* similarity_search: the list of <<Document, similarity>>
similarity_search(vs, query, k, score_threshold) ==
    IF vs = None THEN <<>>
    ELSE FilterByThreshold(similarity_search_with_score(vs[1], query, k),
                           ThresholdOrDefault(score_threshold))

(***************************************************************************)
(* Operations of the memory manager.                                       *)
(***************************************************************************)
InitMemory ==
    /\ histories = EmptyMap
    /\ turnLog = [s \in Sessions |-> <<>>]
    /\ turnNo = [s \in Sessions |-> 0]
    /\ memory_initialized = TRUE

\* ConversationMemoryManager(): __new__ hands out the one instance and __init__
\* creates the empty session map only while _initialized is False; the result
\* is <<_initialized, _histories, whether the map was created>>
construct_memory_always_initializes(init, hs) == <<TRUE, EmptyMap, TRUE>>

construct_memory(init, hs) ==
    IF init THEN <<init, hs, FALSE>> ELSE <<TRUE, EmptyMap, TRUE>>

\* get_memory_manager()
GetMemoryManager ==
    /\ LET c == construct_memory(memory_initialized, histories)
       IN  /\ memory_initialized' = c[1]
           /\ histories' = c[2]
           /\ turnLog' = IF c[3] THEN [s \in Sessions |-> <<>>] ELSE turnLog
           /\ lastOp' = [op |-> "get_memory_manager", ran_initialize |-> c[3]]
    /\ UNCHANGED <<turnNo, storeVars, chatVars, taskVars>>

RECURSIVE Sum(_, _)
Sum(f, S) == IF S = {} THEN 0 ELSE LET x == CHOOSE y \in S : TRUE IN f[x] + Sum(f, S \ {x})

\* a direct add_turn call; the n-th turn of session s carries <<"q", s, n>> and <<"a", s, n>>
AddTurn(s) ==
    /\ Sum(turnNo, Sessions) < MaxTurns
    /\ LET n == turnNo[s] + 1
           user_message == <<"q", s, n>>
           assistant_message == <<"a", s, n>>
       IN  /\ histories' = add_turn(histories, s, user_message, assistant_message)
           /\ turnLog' = [turnLog EXCEPT ![s] =
                             @ \o <<UserMsg(user_message), AssistantMsg(assistant_message)>>]
           /\ turnNo' = [turnNo EXCEPT ![s] = n]
    /\ lastOp' = [op |-> "add_turn", session_id |-> s]
    /\ UNCHANGED <<memory_initialized, storeVars, chatVars, taskVars>>

GetHistory_without_creation(s) ==
    /\ histories' = histories
    /\ lastOp' = [op |-> "get_history", session_id |-> s,
                  ret |-> get_history(histories, s)[s]]
    /\ UNCHANGED <<turnLog, turnNo, memory_initialized, storeVars, chatVars, taskVars>>

GetHistory(s) ==
    /\ histories' = get_history(histories, s)
    /\ lastOp' = [op |-> "get_history", session_id |-> s, ret |-> histories'[s]]
    /\ UNCHANGED <<turnLog, turnNo, memory_initialized, storeVars, chatVars, taskVars>>

GetRecentContext(s, n_turns) ==
    /\ histories' = get_history(histories, s)
    /\ lastOp' = [op |-> "get_recent_context", session_id |-> s, n_turns |-> n_turns,
                  ret |-> get_recent_context(histories, s, n_turns)]
    /\ UNCHANGED <<turnLog, turnNo, memory_initialized, storeVars, chatVars, taskVars>>

ClearSession(s) ==
    /\ histories' = clear_session(histories, s)[2]
    /\ turnLog' = [turnLog EXCEPT ![s] = <<>>]
    /\ lastOp' = [op |-> "clear_session", session_id |-> s,
                  ret |-> clear_session(histories, s)[1]]
    /\ UNCHANGED <<turnNo, memory_initialized, storeVars, chatVars, taskVars>>

ClearAll ==
    /\ histories' = clear_all(histories)[2]
    /\ turnLog' = [s \in Sessions |-> <<>>]
    /\ lastOp' = [op |-> "clear_all", ret |-> clear_all(histories)[1]]
    /\ UNCHANGED <<turnNo, memory_initialized, storeVars, chatVars, taskVars>>

ListSessions ==
    /\ lastOp' = [op |-> "list_sessions", ret |-> list_sessions(histories)]
    /\ UNCHANGED <<memVars, storeVars, chatVars, taskVars>>

(***************************************************************************)
(* Operations of the vector store.                                         *)
(***************************************************************************)
Times == {1}

SavedIndex == Documents("d1", <<"sky">>)
SavedMetadata == save_metadata("d1" :> DocMeta("d1", <<"sky">>, 1))

\* directory contents a start can find: what a run saved, with either file
\* possibly missing or unreadable
InitialDisks ==
    {EmptyDir,
     [index |-> File(SavedIndex), metadata |-> File(SavedMetadata)],
     [index |-> File(SavedIndex), metadata |-> Absent],
     [index |-> File(SavedIndex), metadata |-> Corrupt],
     [index |-> Corrupt,          metadata |-> File(SavedMetadata)],
     [index |-> Absent,           metadata |-> File(SavedMetadata)]}

\* __init__ / _initialize on the directory d0
InitStore(d0) ==
    /\ disk = d0
    /\ vector_store = load_store(d0)[1]
    /\ document_metadata = load_store(d0)[2]
    /\ initialized = TRUE
    /\ deleted = {}

\* VectorStoreService(): __new__ hands out the one instance and __init__ runs
\* _initialize only while _initialized is False; the result is
\* <<_initialized, _vector_store, _document_metadata, whether _initialize ran>>
construct_store_always_initializes(init, vs, meta, d) ==
    <<TRUE, load_store(d)[1], load_store(d)[2], TRUE>>

construct_store(init, vs, meta, d) ==
    IF init THEN <<init, vs, meta, FALSE>>
    ELSE <<TRUE, load_store(d)[1], load_store(d)[2], TRUE>>

\* get_vector_store()
GetVectorStore ==
    /\ LET c == construct_store(initialized, vector_store, document_metadata, disk)
       IN  /\ initialized' = c[1]
           /\ vector_store' = c[2]
           /\ document_metadata' = c[3]
           /\ lastOp' = [op |-> "get_vector_store", ran_initialize |-> c[4]]
    /\ UNCHANGED <<disk, deleted, memVars, chatVars, taskVars>>

\* a process restart: a new VectorStoreService is built from the directory
Restart ==
    /\ vector_store' = load_store(disk)[1]
    /\ document_metadata' = load_store(disk)[2]
    /\ initialized' = TRUE
    /\ lastOp' = [op |-> "restart"]
    /\ UNCHANGED <<disk, deleted, memVars, chatVars, taskVars>>

IndexLen(vs) == IF vs = None THEN 0 ELSE Len(vs[1])

\* ingest_document's call of add_documents for a file with the chunks `texts`
Insert(document_id, texts, now) ==
    /\ IndexLen(vector_store) + Len(texts) <= MaxIndexLen
    /\ LET r == add_documents(vector_store, document_metadata, disk,
                              Documents(document_id, texts),
                              DocMeta(document_id, texts, now))
       IN  /\ vector_store' = r[1]
           /\ document_metadata' = r[2]
           /\ disk' = r[3]
    /\ deleted' = deleted \ {document_id}
    /\ lastOp' = [op |-> "insert", document_id |-> document_id, texts |-> texts,
                  fresh |-> /\ document_id \notin DOMAIN document_metadata
                            /\ SlotsOf(vector_store, document_id) = {}]
    /\ UNCHANGED <<initialized, memVars, chatVars, taskVars>>

DeleteDocument(document_id) ==
    /\ LET r == delete_document(vector_store, document_metadata, disk, document_id)
       IN  /\ vector_store' = r[2]
           /\ document_metadata' = r[3]
           /\ disk' = r[4]
           /\ deleted' = IF r[1] THEN deleted \cup {document_id} ELSE deleted
           /\ lastOp' = [op |-> "delete_document", document_id |-> document_id,
                         ret |-> r[1]]
    /\ UNCHANGED <<initialized, memVars, chatVars, taskVars>>

Clear ==
    /\ LET r == clear(vector_store, document_metadata, disk)
       IN  /\ vector_store' = r[1]
           /\ document_metadata' = r[2]
           /\ disk' = r[3]
    /\ lastOp' = [op |-> "clear",
                  deleted_count |-> Cardinality(get_all_documents(document_metadata))]
    /\ UNCHANGED <<initialized, deleted, memVars, chatVars, taskVars>>

Search(query, k, score_threshold) ==
    /\ lastOp' = [op |-> "similarity_search", query |-> query, k |-> k,
                  score_threshold |-> score_threshold,
                  ret |-> similarity_search(vector_store, query, k, score_threshold)]
    /\ UNCHANGED <<storeVars, memVars, chatVars, taskVars>>

GetDocument(document_id) ==
    /\ lastOp' = [op |-> "get_document", document_id |-> document_id,
                  ret |-> get_document(document_metadata, document_id)]
    /\ UNCHANGED <<storeVars, memVars, chatVars, taskVars>>

GetAllDocuments ==
    /\ lastOp' = [op |-> "get_all_documents", ret |-> get_all_documents(document_metadata)]
    /\ UNCHANGED <<storeVars, memVars, chatVars, taskVars>>

IsReady ==
    /\ lastOp' = [op |-> "is_ready", ret |-> is_ready(initialized)]
    /\ UNCHANGED <<storeVars, memVars, chatVars, taskVars>>

\* add_documents when its save fails: the returned chunk ids, or the raise
InsertSaveFails(document_id, texts, now, failure, torn) ==
    /\ IndexLen(vector_store) + Len(texts) <= MaxIndexLen
    /\ LET documents == Documents(document_id, texts)
           r == add_documents(vector_store, document_metadata, disk,
                              documents, DocMeta(document_id, texts, now))
           saved == save_store_failing(r[1], r[2], disk, failure, torn)
       IN  /\ vector_store' = r[1]
           /\ document_metadata' = r[2]
           /\ disk' = saved[1]
           /\ lastOp' = [op |-> "insert_save_fails", document_id |-> document_id,
                         texts |-> texts, failure |-> failure,
                         raised |-> saved[2],
                         ret |-> [i \in 1..Len(documents) |-> documents[i].chunk_id]]
    /\ deleted' = deleted \ {document_id}
    /\ UNCHANGED <<initialized, memVars, chatVars, taskVars>>

\* delete_document of a present document when its save fails
DeleteSaveFails(document_id, failure, torn) ==
    /\ document_id \in DOMAIN document_metadata
    /\ LET r == delete_document(vector_store, document_metadata, disk, document_id)
           saved == save_store_failing(r[2], r[3], disk, failure, torn)
       IN  /\ vector_store' = r[2]
           /\ document_metadata' = r[3]
           /\ disk' = saved[1]
           /\ deleted' = deleted \cup {document_id}
           /\ lastOp' = [op |-> "delete_save_fails", document_id |-> document_id,
                         failure |-> failure, raised |-> saved[2], ret |-> r[1]]
    /\ UNCHANGED <<initialized, memVars, chatVars, taskVars>>

(***************************************************************************)
(* The store's endpoints as tasks of the event loop.  Every endpoint is an *)
(* `async def`; its handler runs on the loop from one suspension point to  *)
(* the next, and the store's methods, being plain functions, are run       *)
(* inside that stretch.  A task's pc is the statement it has reached:      *)
(*   "idle"            no request                                          *)
(*   "await_read"      ingest_document at `await file.read()`              *)
(*   "index_added"     add_documents after the index update                *)
(*   "metadata_set"    add_documents after the metadata update             *)
(*   "checked"         delete_document after the membership test           *)
(*   "index_deleted"   delete_document after the index delete              *)
(*   "metadata_deleted" delete_document after `del`                        *)
(*   "index_cleared"   clear after `_vector_store = None`                  *)
(*   "metadata_cleared" clear after `_document_metadata = {}`              *)
(***************************************************************************)
Tasks == {"t1", "t2"}
Idle == [pc |-> "idle"]

TaskChunkSets == {<<"sky">>, <<"sky", "stock">>}

Suspended_in_store(pc) == pc \in {"idle", "await_read", "index_added", "checked"}

\* the statements at which a handler gives the loop back: its `await`s
Suspended(pc) == pc \in {"idle", "await_read"}

\* task t may run: the loop is free, or t holds it
Runnable(t) == loop = None \/ loop = Some(t)

\* the loop after task t reached pc
LoopAfter(t, pc) == IF Suspended(pc) THEN None ELSE Some(t)

\* task t moves to the record `next`
Goto(t, next) ==
    /\ task' = [task EXCEPT ![t] = next]
    /\ loop' = LoopAfter(t, next.pc)

\* the statements between a mutation's first read of the index or the
\* metadata and the end of its persistence step
MutatingPcs == {"index_added", "metadata_set", "checked", "index_deleted",
                "metadata_deleted", "index_cleared", "metadata_cleared"}

InMutation(t) == task[t].pc \in MutatingPcs

\* ingest_document up to `await file.read()`
IngestBegin(t, document_id, texts, now) ==
    /\ Runnable(t) /\ task[t].pc = "idle"
    /\ Goto(t, [pc |-> "await_read", document_id |-> document_id,
                texts |-> texts, now |-> now])
    /\ lastOp' = [op |-> "task", task |-> t]
    /\ UNCHANGED <<storeVars, memVars, chatVars>>

\* the arguments ingest_document passes to add_documents
DocumentsOf(t) == Documents(task[t].document_id, task[t].texts)
DocMetaOf(t) == DocMeta(task[t].document_id, task[t].texts, task[t].now)

\* add_documents: FAISS.from_documents / add_documents
InsertIndex(t) ==
    /\ Runnable(t) /\ task[t].pc = "await_read"
    /\ IndexLen(vector_store) + Len(task[t].texts) <= MaxIndexLen
    /\ vector_store' = add_documents(vector_store, document_metadata, disk,
                                     DocumentsOf(t), DocMetaOf(t))[1]
    /\ Goto(t, [task[t] EXCEPT !.pc = "index_added"])
    /\ lastOp' = [op |-> "task", task |-> t]
    /\ UNCHANGED <<document_metadata, disk, initialized, deleted, memVars, chatVars>>

\* add_documents: `self._document_metadata[document_id] = document_metadata`
InsertMetadata(t) ==
    /\ Runnable(t) /\ task[t].pc = "index_added"
    /\ document_metadata' = add_documents(vector_store, document_metadata, disk,
                                          DocumentsOf(t), DocMetaOf(t))[2]
    /\ Goto(t, [task[t] EXCEPT !.pc = "metadata_set"])
    /\ lastOp' = [op |-> "task", task |-> t]
    /\ UNCHANGED <<vector_store, disk, initialized, deleted, memVars, chatVars>>

\* add_documents: `self._save_store()`, and the handler returns
InsertSave(t) ==
    /\ Runnable(t) /\ task[t].pc = "metadata_set"
    /\ disk' = save_store(vector_store, document_metadata, disk)
    /\ deleted' = deleted \ {task[t].document_id}
    /\ Goto(t, Idle)
    /\ lastOp' = [op |-> "task_insert", task |-> t, document_id |-> task[t].document_id]
    /\ UNCHANGED <<vector_store, document_metadata, initialized, memVars, chatVars>>

\* delete_document: `if document_id not in self._document_metadata`
DeleteCheck(t, document_id) ==
    /\ Runnable(t) /\ task[t].pc = "idle"
    /\ IF document_id \notin DOMAIN document_metadata
       THEN /\ Goto(t, Idle)
            /\ lastOp' = [op |-> "task_delete", task |-> t,
                          document_id |-> document_id, ret |-> FALSE]
       ELSE /\ Goto(t, [pc |-> "checked", document_id |-> document_id])
            /\ lastOp' = [op |-> "task", task |-> t]
    /\ UNCHANGED <<storeVars, memVars, chatVars>>

\* delete_document: the index delete
DeleteIndex(t) ==
    /\ Runnable(t) /\ task[t].pc = "checked"
    /\ vector_store' = delete_document(vector_store, document_metadata, disk,
                                       task[t].document_id)[2]
    /\ Goto(t, [task[t] EXCEPT !.pc = "index_deleted"])
    /\ lastOp' = [op |-> "task", task |-> t]
    /\ UNCHANGED <<document_metadata, disk, initialized, deleted, memVars, chatVars>>

\* delete_document: `del self._document_metadata[document_id]`, a KeyError
\* (which ends the handler) when the id is not in the map
DeleteMetadata(t) ==
    /\ Runnable(t) /\ task[t].pc = "index_deleted"
    /\ IF task[t].document_id \in DOMAIN document_metadata
       THEN /\ document_metadata' = Restrict(document_metadata,
                                     DOMAIN document_metadata \ {task[t].document_id})
            /\ Goto(t, [task[t] EXCEPT !.pc = "metadata_deleted"])
            /\ lastOp' = [op |-> "task", task |-> t]
       ELSE /\ document_metadata' = document_metadata
            /\ Goto(t, Idle)
            /\ lastOp' = [op |-> "task_delete_raised", task |-> t,
                          document_id |-> task[t].document_id]
    /\ UNCHANGED <<vector_store, disk, initialized, deleted, memVars, chatVars>>

\* delete_document: `self._save_store()`, `return True`, and the handler returns
DeleteSave(t) ==
    /\ Runnable(t) /\ task[t].pc = "metadata_deleted"
    /\ disk' = save_store(vector_store, document_metadata, disk)
    /\ deleted' = deleted \cup {task[t].document_id}
    /\ Goto(t, Idle)
    /\ lastOp' = [op |-> "task_delete", task |-> t,
                  document_id |-> task[t].document_id, ret |-> TRUE]
    /\ UNCHANGED <<vector_store, document_metadata, initialized, memVars, chatVars>>

\* clear: `self._vector_store = None`
ClearIndex(t) ==
    /\ Runnable(t) /\ task[t].pc = "idle"
    /\ vector_store' = clear(vector_store, document_metadata, disk)[1]
    /\ Goto(t, [pc |-> "index_cleared"])
    /\ lastOp' = [op |-> "task", task |-> t]
    /\ UNCHANGED <<document_metadata, disk, initialized, deleted, memVars, chatVars>>

\* clear: `self._document_metadata = {}`
ClearMetadata(t) ==
    /\ Runnable(t) /\ task[t].pc = "index_cleared"
    /\ document_metadata' = clear(vector_store, document_metadata, disk)[2]
    /\ Goto(t, [pc |-> "metadata_cleared"])
    /\ lastOp' = [op |-> "task", task |-> t]
    /\ UNCHANGED <<vector_store, disk, initialized, deleted, memVars, chatVars>>

\* clear: the files are unlinked, and the handler returns
ClearFiles(t) ==
    /\ Runnable(t) /\ task[t].pc = "metadata_cleared"
    /\ disk' = clear(vector_store, document_metadata, disk)[3]
    /\ Goto(t, Idle)
    /\ lastOp' = [op |-> "task_clear", task |-> t]
    /\ UNCHANGED <<vector_store, document_metadata, initialized, deleted, memVars, chatVars>>

\* the documents a search over the index can return and the metadata map lacks
OrphanDocuments ==
    {id \in DocIds : SlotsOf(vector_store, id) # {} /\ id \notin DOMAIN document_metadata}

\* what a read observes next to its result: the other tasks with a request in
\* flight, whether one of them is inside a mutation, and the orphan documents
Observation(t) ==
    [in_flight |-> {u \in Tasks \ {t} : task[u].pc # "idle"},
     mid_mutation |-> \E u \in Tasks \ {t} : InMutation(u),
     orphans |-> OrphanDocuments]

\* a search (similarity_search reads the index once)
ReadSearch(t, query) ==
    /\ Runnable(t) /\ task[t].pc = "idle"
    /\ lastOp' = [op |-> "task_read", task |-> t, seen |-> Observation(t),
                  ret |-> similarity_search(vector_store, query, DefaultTopK, None)]
    /\ UNCHANGED <<storeVars, memVars, chatVars, taskVars>>

\* get_document of any id, as a task
ReadDocument(t, document_id) ==
    /\ Runnable(t) /\ task[t].pc = "idle"
    /\ GetDocument(document_id)

\* clear_session of any id, as a task
TaskClearSession(t, s) ==
    /\ Runnable(t) /\ task[t].pc = "idle"
    /\ ClearSession(s)

\* a metadata query (list_documents reads the metadata map once)
ReadDocuments(t) ==
    /\ Runnable(t) /\ task[t].pc = "idle"
    /\ lastOp' = [op |-> "task_read", task |-> t, seen |-> Observation(t),
                  ret |-> get_all_documents(document_metadata)]
    /\ UNCHANGED <<storeVars, memVars, chatVars, taskVars>>

(***************************************************************************)
(* RetrieverService                                                        *)
(***************************************************************************)
PreviewLength == 150           \* retriever.py:86
Separator == "\n\n---\n\n"

\* len(text) of the chunk texts
TextLen(text) == IF text = "stock" THEN 400 ELSE 16

\* truncate_text: the characters kept of the text and the suffix appended
truncate_text(text, max_length) ==
    IF TextLen(text) <= max_length
    THEN [of |-> text, chars |-> TextLen(text), suffix |-> ""]
    ELSE [of |-> text, chars |-> max_length - Len("..."), suffix |-> "..."]

\* sep.join(parts): the parts with the separator between them
RECURSIVE Join(_, _)
Join(parts, sep) ==
    IF Len(parts) <= 1 THEN parts
    ELSE Join(SubSeq(parts, 1, Len(parts) - 1), sep) \o <<sep, parts[Len(parts)]>>

\* the running `top_score = max(top_score, score)` over the first n hits
RECURSIVE TopScore(_, _)
TopScore(results, n) ==
    IF n = 0 THEN 0 ELSE Max(TopScore(results, n - 1), results[n][2])

\* `k or self._settings.retrieval_top_k`
KOrDefault(k) == IF k = None \/ k[1] = 0 THEN DefaultTopK ELSE k[1]

\* retrieve's call of the store: the hits
retrieve_search(vs, query, k, score_threshold) ==
    similarity_search(vs, query, KOrDefault(k), Some(ThresholdOrDefault(score_threshold)))

\* the SourceReference retrieve builds for one hit
SourceReference(doc) ==
    [document |-> doc.filename,
     chunk_id |-> doc.chunk_id,
     content_preview |-> truncate_text(doc.page_content, PreviewLength)]

NoRelevantContent ==
    [context |-> <<>>, sources |-> <<>>, has_relevant_content |-> FALSE, top_score |-> 0]

retrieve_always_relevant(vs, query, k, score_threshold) ==
    LET results == retrieve_search(vs, query, k, score_threshold)
    IN  [context |-> Join([i \in 1..Len(results) |-> results[i][1].page_content],
                          Separator),
         sources |-> [i \in 1..Len(results) |-> SourceReference(results[i][1])],
         has_relevant_content |-> TRUE,
         top_score |-> TopScore(results, Len(results))]

retrieve_last_score(vs, query, k, score_threshold) ==
    LET results == retrieve_search(vs, query, k, score_threshold)
    IN  IF results = <<>>
        THEN NoRelevantContent
        ELSE [context |-> Join([i \in 1..Len(results) |-> results[i][1].page_content],
                               Separator),
              sources |-> [i \in 1..Len(results) |-> SourceReference(results[i][1])],
              has_relevant_content |-> TRUE,
              top_score |-> results[Len(results)][2]]

\* retrieve: the RetrievalResult
retrieve(vs, query, k, score_threshold) ==
    LET results == retrieve_search(vs, query, k, score_threshold)
    IN  IF results = <<>>
        THEN NoRelevantContent
        ELSE [context |-> Join([i \in 1..Len(results) |-> results[i][1].page_content],
                               Separator),
              sources |-> [i \in 1..Len(results) |-> SourceReference(results[i][1])],
              has_relevant_content |-> TRUE,
              top_score |-> TopScore(results, Len(results))]

\* the query retrieve_with_history searches with
enhanced_query(query, conversation_context) ==
    IF conversation_context # <<>>
    THEN <<"Context: ", conversation_context, "\n\nQuestion: ">> \o query
    ELSE query

retrieve_with_history_always_enhanced(vs, query, conversation_context, k) ==
    retrieve(vs, <<"Context: ", conversation_context, "\n\nQuestion: ">> \o query, k, None)

\* retrieve_with_history: the RetrievalResult
retrieve_with_history(vs, query, conversation_context, k) ==
    retrieve(vs, enhanced_query(query, conversation_context), k, None)

\* the arguments the retriever is called with
RetrieveKs == {None, Some(1)}
RetrieveQueries == {Str("sky"), Str("color")}
RetrieveThresholds == {None, Some(500)}
Contexts == {<<>>, get_recent_context(add_turn(EmptyMap, "s1", Str("sky"), Str("blue")),
                                      "s1", DefaultNTurns)}

Retrieve(query, k, score_threshold) ==
    /\ lastOp' = [op |-> "retrieve", query |-> query, k |-> k,
                  score_threshold |-> score_threshold,
                  hits |-> retrieve_search(vector_store, query, k, score_threshold),
                  ret |-> retrieve(vector_store, query, k, score_threshold)]
    /\ UNCHANGED <<storeVars, memVars, chatVars, taskVars>>

RetrieveWithHistory(query, conversation_context, k) ==
    /\ lastOp' = [op |-> "retrieve_with_history", query |-> query, k |-> k,
                  conversation_context |-> conversation_context,
                  searched |-> enhanced_query(query, conversation_context),
                  ret |-> retrieve_with_history(vector_store, query,
                                                conversation_context, k)]
    /\ UNCHANGED <<storeVars, memVars, chatVars, taskVars>>

(***************************************************************************)
(* The streaming chat handler, generate_sse_response.  A request's pc is   *)
(* the point where its generator is suspended:                             *)
(*   "new"            not started                                          *)
(*   "no_knowledge"   at the yield of a word of the no-knowledge answer    *)
(*   "streaming"      awaiting the LLM's next token / at a token's yield   *)
(*   "sent_sources"   at the yield of the sources event                    *)
(*   "sent_done"      at the yield of the done event                       *)
(*   "sent_error"     at the yield of the error event                      *)
(*   "closed"         finished (completed, error) or cancelled             *)
(***************************************************************************)
MaxTokens == 2                 \* tokens of one LLM stream

ChatMessages == {"sky", "forecast"}

no_knowledge == Str("I do not have knowledge of this based on the uploaded documents.")
NoKnowledgeWords == <<"I", "do", "not", "have", "knowledge", "of", "this",
                      "based", "on", "the", "uploaded", "documents.">>

\* no_knowledge.split()
Split(text) == IF text = no_knowledge THEN NoKnowledgeWords ELSE text

Event(type, payload) == [type |-> type, payload |-> payload]

Emit(r, event) == Append(req[r].events, event)

\* the memory after add_turn, with the ghosts kept in step
CommitTurn(s, user_message, assistant_message) ==
    /\ histories' = add_turn(histories, s, user_message, assistant_message)
    /\ turnLog' = [turnLog EXCEPT ![s] =
                      @ \o <<UserMsg(user_message), AssistantMsg(assistant_message)>>]
    /\ turnNo' = [turnNo EXCEPT ![s] = @ + 1]
    /\ UNCHANGED memory_initialized

\* first run of the generator: context, history, retrieval, then either the
\* first no-knowledge word is yielded, or the provider is built and the LLM
\* stream is awaited; `failure` is what raises on the way, if anything
ChatStart_records_message_first(r, s, message, failure) ==
    /\ req[r].pc = "new"
    /\ LET hs0 == get_history(histories, s)
           hs1 == [hs0 EXCEPT ![s] = Append(@, UserMsg(Str(message)))]
           conversation_context == get_recent_context(hs1, s, DefaultNTurns)
           conversation_history == get_history(hs1, s)[s]
           retrieval_result == retrieve_with_history(vector_store, Str(message),
                                                     conversation_context, None)
           locals == [session_id |-> s, message |-> Str(message),
                      conversation_context |-> conversation_context,
                      conversation_history |-> conversation_history,
                      retrieval_result |-> retrieval_result,
                      full_response |-> <<>>]
       IN  /\ histories' = hs1
           /\ req' = [req EXCEPT ![r] =
                IF failure = "retrieval"
                THEN [pc |-> "sent_error", events |-> <<Event("error", failure)>>]
                     @@ [locals EXCEPT !.retrieval_result = None]
                ELSE IF ~retrieval_result.has_relevant_content
                THEN [pc |-> "no_knowledge",
                      events |-> <<Event("token", Split(no_knowledge)[1])>>] @@ locals
                ELSE IF failure = "provider"
                THEN [pc |-> "sent_error", events |-> <<Event("error", failure)>>] @@ locals
                ELSE [pc |-> "streaming", events |-> <<>>] @@ locals]
    /\ lastOp' = [op |-> "chat", request |-> r]
    /\ UNCHANGED <<turnLog, turnNo, memory_initialized, storeVars, taskVars>>

ChatStart_provider_first(r, s, message, failure) ==
    /\ req[r].pc = "new"
    /\ LET hs1 == get_history(histories, s)
           conversation_context == get_recent_context(histories, s, DefaultNTurns)
           conversation_history == get_history(hs1, s)[s]
           retrieval_result == retrieve_with_history(vector_store, Str(message),
                                                     conversation_context, None)
           locals == [session_id |-> s, message |-> Str(message),
                      conversation_context |-> conversation_context,
                      conversation_history |-> conversation_history,
                      retrieval_result |-> retrieval_result,
                      full_response |-> <<>>]
       IN  /\ histories' = hs1
           /\ req' = [req EXCEPT ![r] =
                IF failure = "retrieval"
                THEN [pc |-> "sent_error", events |-> <<Event("error", failure)>>]
                     @@ [locals EXCEPT !.retrieval_result = None]
                ELSE IF failure = "provider"
                THEN [pc |-> "sent_error", events |-> <<Event("error", failure)>>] @@ locals
                ELSE IF ~retrieval_result.has_relevant_content
                THEN [pc |-> "no_knowledge",
                      events |-> <<Event("token", Split(no_knowledge)[1])>>] @@ locals
                ELSE [pc |-> "streaming", events |-> <<>>] @@ locals]
    /\ lastOp' = [op |-> "chat", request |-> r]
    /\ UNCHANGED <<turnLog, turnNo, memory_initialized, storeVars, taskVars>>

ChatStart(r, s, message, failure) ==
    /\ req[r].pc = "new"
    /\ LET hs1 == get_history(histories, s)
           conversation_context == get_recent_context(histories, s, DefaultNTurns)
           conversation_history == get_history(hs1, s)[s]
           retrieval_result == retrieve_with_history(vector_store, Str(message),
                                                     conversation_context, None)
           locals == [session_id |-> s, message |-> Str(message),
                      conversation_context |-> conversation_context,
                      conversation_history |-> conversation_history,
                      retrieval_result |-> retrieval_result,
                      full_response |-> <<>>]
       IN  /\ histories' = hs1
           /\ req' = [req EXCEPT ![r] =
                IF failure = "retrieval"
                THEN [pc |-> "sent_error", events |-> <<Event("error", failure)>>]
                     @@ [locals EXCEPT !.retrieval_result = None]
                ELSE IF ~retrieval_result.has_relevant_content
                THEN [pc |-> "no_knowledge",
                      events |-> <<Event("token", Split(no_knowledge)[1])>>] @@ locals
                ELSE IF failure = "provider"
                THEN [pc |-> "sent_error", events |-> <<Event("error", failure)>>] @@ locals
                ELSE [pc |-> "streaming", events |-> <<>>] @@ locals]
    /\ lastOp' = [op |-> "chat", request |-> r]
    /\ UNCHANGED <<turnLog, turnNo, memory_initialized, storeVars, taskVars>>

\* the generator is resumed in the no-knowledge loop: next word, then sources
ChatNoKnowledgeNext(r) ==
    /\ req[r].pc = "no_knowledge"
    /\ LET sent == Len(req[r].events)
       IN  req' = [req EXCEPT ![r] =
                IF sent < Len(Split(no_knowledge))
                THEN [@ EXCEPT !.events = Emit(r, Event("token", Split(no_knowledge)[sent + 1]))]
                ELSE [@ EXCEPT !.pc = "sent_sources",
                               !.events = Emit(r, Event("sources", <<>>))]]
    /\ lastOp' = [op |-> "chat", request |-> r]
    /\ UNCHANGED <<memVars, storeVars, taskVars>>

\* the LLM stream delivers a token: it is added to full_response and yielded
ChatToken(r) ==
    /\ req[r].pc = "streaming"
    /\ Len(req[r].full_response) < MaxTokens
    /\ LET token == <<"token", r, Len(req[r].full_response) + 1>>
       IN  req' = [req EXCEPT ![r] =
                [@ EXCEPT !.full_response = Append(@, token),
                          !.events = Emit(r, Event("token", token))]]
    /\ lastOp' = [op |-> "chat", request |-> r]
    /\ UNCHANGED <<memVars, storeVars, taskVars>>

\* the LLM stream ends: the sources event is yielded
ChatStreamEnd(r) ==
    /\ req[r].pc = "streaming"
    /\ req' = [req EXCEPT ![r] =
            [@ EXCEPT !.pc = "sent_sources",
                      !.events = Emit(r, Event("sources", req[r].retrieval_result.sources))]]
    /\ lastOp' = [op |-> "chat", request |-> r]
    /\ UNCHANGED <<memVars, storeVars, taskVars>>

ChatStreamError_silent(r) ==
    /\ req[r].pc = "streaming"
    /\ req' = [req EXCEPT ![r] = [@ EXCEPT !.pc = "closed"] @@ [outcome |-> "error"]]
    /\ lastOp' = [op |-> "chat", request |-> r]
    /\ UNCHANGED <<memVars, storeVars, taskVars>>

\* the LLM stream raises: the error event is yielded
ChatStreamError(r) ==
    /\ req[r].pc = "streaming"
    /\ req' = [req EXCEPT ![r] =
            [@ EXCEPT !.pc = "sent_error", !.events = Emit(r, Event("error", "llm"))]]
    /\ lastOp' = [op |-> "chat", request |-> r]
    /\ UNCHANGED <<memVars, storeVars, taskVars>>

ChatDone_zero_confidence(r) ==
    /\ req[r].pc = "sent_sources"
    /\ req' = [req EXCEPT ![r] =
            [@ EXCEPT !.pc = "sent_done", !.events = Emit(r, Event("done", 0))]]
    /\ lastOp' = [op |-> "chat", request |-> r]
    /\ UNCHANGED <<memVars, storeVars, taskVars>>

\* resumed after the sources event: the done event is yielded
ChatDone(r) ==
    /\ req[r].pc = "sent_sources"
    /\ req' = [req EXCEPT ![r] =
            [@ EXCEPT !.pc = "sent_done",
                      !.events = Emit(r, Event("done",
                          IF req[r].retrieval_result.has_relevant_content
                          THEN req[r].retrieval_result.top_score
                          ELSE 0))]]
    /\ lastOp' = [op |-> "chat", request |-> r]
    /\ UNCHANGED <<memVars, storeVars, taskVars>>

\* the answer a request that completes commits to memory
AnswerOf(r) ==
    IF req[r].retrieval_result.has_relevant_content
    THEN req[r].full_response
    ELSE no_knowledge

ChatCommit_from_list_read_at_start(r) ==
    /\ req[r].pc = "sent_done"
    /\ histories' = add_turn([histories EXCEPT ![req[r].session_id] =
                                req[r].conversation_history],
                             req[r].session_id, req[r].message, AnswerOf(r))
    /\ turnLog' = [turnLog EXCEPT ![req[r].session_id] =
                      @ \o <<UserMsg(req[r].message), AssistantMsg(AnswerOf(r))>>]
    /\ turnNo' = [turnNo EXCEPT ![req[r].session_id] = @ + 1]
    /\ req' = [req EXCEPT ![r] = [@ EXCEPT !.pc = "closed"] @@ [outcome |-> "completed"]]
    /\ lastOp' = [op |-> "chat", request |-> r]
    /\ UNCHANGED <<memory_initialized, storeVars, taskVars>>

\* resumed after the done event: add_turn, and the generator returns
ChatCommit(r) ==
    /\ req[r].pc = "sent_done"
    /\ CommitTurn(req[r].session_id, req[r].message, AnswerOf(r))
    /\ req' = [req EXCEPT ![r] = [@ EXCEPT !.pc = "closed"] @@ [outcome |-> "completed"]]
    /\ lastOp' = [op |-> "chat", request |-> r]
    /\ UNCHANGED <<storeVars, taskVars>>

\* resumed after the error event: the generator returns
ChatErrorEnd(r) ==
    /\ req[r].pc = "sent_error"
    /\ req' = [req EXCEPT ![r] = [@ EXCEPT !.pc = "closed"] @@ [outcome |-> "error"]]
    /\ lastOp' = [op |-> "chat", request |-> r]
    /\ UNCHANGED <<memVars, storeVars, taskVars>>

ChatDisconnect_commits_partial(r) ==
    /\ req[r].pc \notin {"new", "generating", "closed"}
    /\ req' = [req EXCEPT ![r] = [@ EXCEPT !.pc = "closed"] @@ [outcome |-> "cancelled"]]
    /\ CommitTurn(req[r].session_id, req[r].message, req[r].full_response)
    /\ lastOp' = [op |-> "chat", request |-> r]
    /\ UNCHANGED <<storeVars, taskVars>>

\* the client disconnects while the generator is suspended: it is cancelled
\* there (CancelledError is no Exception) and runs no further
ChatDisconnect(r) ==
    /\ req[r].pc \notin {"new", "generating", "closed"}
    /\ req' = [req EXCEPT ![r] = [@ EXCEPT !.pc = "closed"] @@ [outcome |-> "cancelled"]]
    /\ lastOp' = [op |-> "chat", request |-> r]
    /\ UNCHANGED <<memVars, storeVars, taskVars>>

(***************************************************************************)
(* The non-streaming chat handler, chat_sync.  It is suspended only at     *)
(* `await llm.generate(...)` (pc "generating"); nothing catches what       *)
(* retrieval, the provider's construction or the generation raise.         *)
(***************************************************************************)
\* the answer llm.generate returns to request r, in one piece
Response(r) == <<<<"answer", r, 0>>>>

\* chat_sync up to `await llm.generate(...)`, or to its return or raise
\* before it
\* ChatResponse(answer=..., sources=..., confidence=...)
ChatResponse(answer, sources, confidence) ==
    [answer |-> answer, sources |-> sources, confidence |-> confidence]

\* ChatResponse.no_knowledge_response()
no_knowledge_response == ChatResponse(no_knowledge, <<>>, 0)

SyncStart(r, s, message, failure) ==
    /\ req[r].pc = "new"
    /\ LET hs1 == get_history(histories, s)
           conversation_context == get_recent_context(histories, s, DefaultNTurns)
           conversation_history == get_history(hs1, s)[s]
           retrieval_result == retrieve_with_history(vector_store, Str(message),
                                                     conversation_context, None)
           locals == [endpoint |-> "sync", session_id |-> s, message |-> Str(message),
                      conversation_context |-> conversation_context,
                      conversation_history |-> conversation_history,
                      retrieval_result |-> retrieval_result,
                      full_response |-> <<>>, events |-> <<>>]
       IN  /\ histories' = hs1
           /\ req' = [req EXCEPT ![r] =
                IF failure = "retrieval"
                THEN [pc |-> "closed", outcome |-> "error"]
                     @@ [locals EXCEPT !.retrieval_result = None]
                ELSE IF ~retrieval_result.has_relevant_content
                THEN [pc |-> "closed", outcome |-> "no_knowledge",
                      response |-> no_knowledge_response] @@ locals
                ELSE IF failure = "provider"
                THEN [pc |-> "closed", outcome |-> "error"] @@ locals
                ELSE [pc |-> "generating"] @@ locals]
    /\ lastOp' = [op |-> "chat_sync", request |-> r]
    /\ UNCHANGED <<turnLog, turnNo, memory_initialized, storeVars, taskVars>>

\* llm.generate returns: add_turn, and the ChatResponse is returned
SyncReturn(r) ==
    /\ req[r].pc = "generating"
    /\ CommitTurn(req[r].session_id, req[r].message, Response(r))
    /\ req' = [req EXCEPT ![r] =
            [@ EXCEPT !.pc = "closed", !.full_response = Response(r)]
            @@ [outcome |-> "completed",
                response |-> ChatResponse(Response(r), req[r].retrieval_result.sources,
                                          req[r].retrieval_result.top_score)]]
    /\ lastOp' = [op |-> "chat_sync", request |-> r]
    /\ UNCHANGED <<storeVars, taskVars>>

\* llm.generate raises: the exception leaves the handler
SyncRaise(r) ==
    /\ req[r].pc = "generating"
    /\ req' = [req EXCEPT ![r] = [@ EXCEPT !.pc = "closed"] @@ [outcome |-> "error"]]
    /\ lastOp' = [op |-> "chat_sync", request |-> r]
    /\ UNCHANGED <<memVars, storeVars, taskVars>>

(***************************************************************************)
(* Specifications.                                                         *)
(***************************************************************************)
Requests == {"r1", "r2"}
NotStarted == [pc |-> "new"]

InitOp ==
    /\ lastOp = [op |-> "init"]
    /\ req = [r \in Requests |-> NotStarted]
    /\ task = [t \in Tasks |-> Idle]
    /\ loop = None

\* the memory manager alone, the store freshly started on an empty directory
InitMem == InitMemory /\ InitStore(EmptyDir) /\ InitOp

NextMem ==
    \/ \E s \in Sessions : AddTurn(s)
    \/ \E s \in Sessions : GetHistory(s)
    \/ \E s \in Sessions, n \in NTurnsArgs : GetRecentContext(s, n)
    \/ \E s \in Sessions : ClearSession(s)
    \/ ClearAll
    \/ ListSessions

SpecMemory == InitMem /\ [][NextMem]_vars

\* the vector store alone, started on any of the directories
InitSt == InitMemory /\ (\E d0 \in InitialDisks : InitStore(d0)) /\ InitOp

NextSt ==
    \/ \E id \in DocIds, texts \in ChunkSets, now \in Times : Insert(id, texts, now)
    \/ \E id \in DocIds : DeleteDocument(id)
    \/ Clear
    \/ \E q \in Queries, k \in Ks, th \in Thresholds : Search(q, k, th)
    \/ \E id \in DocIds : GetDocument(id)
    \/ GetAllDocuments
    \/ IsReady
    \/ Restart

SpecStore == InitSt /\ [][NextSt]_vars

\* the vector store alone, started on an empty directory
InitFresh == InitMemory /\ InitStore(EmptyDir) /\ InitOp

SpecStoreFresh == InitFresh /\ [][NextSt]_vars

\* the retriever over the store, started on an empty directory
NextRetriever ==
    \/ \E id \in DocIds, texts \in ChunkSets, now \in Times : Insert(id, texts, now)
    \/ \E id \in DocIds : DeleteDocument(id)
    \/ \E q \in RetrieveQueries, k \in RetrieveKs, th \in RetrieveThresholds : Retrieve(q, k, th)
    \/ \E q \in RetrieveQueries, c \in Contexts, k \in RetrieveKs : RetrieveWithHistory(q, c, k)

SpecRetriever == InitFresh /\ [][NextRetriever]_vars

\* retrieve with every kind of argument: omitted, zero, positive
ParameterKs == {None, Some(0), Some(1)}
ParameterThresholds == {None, Some(0), Some(500)}

NextParameters ==
    \/ \E id \in DocIds, texts \in ChunkSets, now \in Times : Insert(id, texts, now)
    \/ \E q \in RetrieveQueries, k \in ParameterKs, th \in ParameterThresholds :
            Retrieve(q, k, th)

SpecParameters == InitFresh /\ [][NextParameters]_vars

\* the vector store whose saves can fail, fed one-chunk files
FaultyChunkSets == {<<"sky">>}

NextFaulty ==
    \/ \E id \in DocIds, texts \in FaultyChunkSets, now \in Times : Insert(id, texts, now)
    \/ \E id \in DocIds : DeleteDocument(id)
    \/ Restart
    \/ \E id \in DocIds, texts \in FaultyChunkSets, now \in Times,
          f \in SaveFailures, torn \in BOOLEAN : InsertSaveFails(id, texts, now, f, torn)
    \/ \E id \in DocIds, f \in SaveFailures, torn \in BOOLEAN :
          DeleteSaveFails(id, f, torn)

SpecStoreFaulty == InitFresh /\ [][NextFaulty]_vars

\* the store's endpoints as concurrent tasks, the store started on an empty
\* directory, on a saved one, or on one that lost its metadata.json
TaskDisks == {EmptyDir,
              [index |-> File(SavedIndex), metadata |-> File(SavedMetadata)],
              [index |-> File(SavedIndex), metadata |-> Absent]}

InitTasks == InitMemory /\ (\E d0 \in TaskDisks : InitStore(d0)) /\ InitOp

NextTasks ==
    \/ \E t \in Tasks, id \in DocIds, texts \in TaskChunkSets, now \in Times :
            IngestBegin(t, id, texts, now)
    \/ \E t \in Tasks : InsertIndex(t)
    \/ \E t \in Tasks : InsertMetadata(t)
    \/ \E t \in Tasks : InsertSave(t)
    \/ \E t \in Tasks, id \in DocIds : DeleteCheck(t, id)
    \/ \E t \in Tasks : DeleteIndex(t)
    \/ \E t \in Tasks : DeleteMetadata(t)
    \/ \E t \in Tasks : DeleteSave(t)
    \/ \E t \in Tasks : ClearIndex(t)
    \/ \E t \in Tasks : ClearMetadata(t)
    \/ \E t \in Tasks : ClearFiles(t)
    \/ \E t \in Tasks, q \in Queries : ReadSearch(t, q)
    \/ \E t \in Tasks : ReadDocuments(t)
    \/ \E t \in Tasks, id \in DocIds : ReadDocument(t, id)
    \/ \E t \in Tasks, s \in Sessions : TaskClearSession(t, s)

SpecTasks == InitTasks /\ [][NextTasks]_vars

\* concurrent chat requests over the memory manager and a store that is empty
\* or holds one document
ChatDisks == {EmptyDir, [index |-> File(SavedIndex), metadata |-> File(SavedMetadata)]}
Failures == {"none", "retrieval", "provider"}

InitChat == InitMemory /\ (\E d0 \in ChatDisks : InitStore(d0)) /\ InitOp

NextChat ==
    \/ \E r \in Requests, s \in Sessions, m \in ChatMessages, f \in Failures :
            ChatStart(r, s, m, f)
    \/ \E r \in Requests : ChatNoKnowledgeNext(r)
    \/ \E r \in Requests : ChatToken(r)
    \/ \E r \in Requests : ChatStreamEnd(r)
    \/ \E r \in Requests : ChatStreamError(r)
    \/ \E r \in Requests : ChatDone(r)
    \/ \E r \in Requests : ChatCommit(r)
    \/ \E r \in Requests : ChatErrorEnd(r)
    \/ \E r \in Requests : ChatDisconnect(r)
    \/ \E r \in Requests, s \in Sessions, m \in ChatMessages, f \in Failures :
            SyncStart(r, s, m, f)
    \/ \E r \in Requests : SyncReturn(r)
    \/ \E r \in Requests : SyncRaise(r)

SpecChat == InitChat /\ [][NextChat]_vars

\* the session endpoints next to chat requests that find a relevant chunk:
\* the store holds the saved document and every message asks about it
SessionMessages == {"sky"}
SessionFailures == {"none", "provider"}

InitSessions ==
    /\ InitMemory
    /\ InitStore([index |-> File(SavedIndex), metadata |-> File(SavedMetadata)])
    /\ InitOp

NextSessions ==
    \/ \E s \in Sessions : GetHistory(s)
    \/ \E s \in Sessions : GetRecentContext(s, DefaultNTurns)
    \/ \E s \in Sessions : ClearSession(s)
    \/ ListSessions
    \/ \E r \in Requests, s \in Sessions, m \in SessionMessages, f \in SessionFailures :
            ChatStart(r, s, m, f)
    \/ \E r \in Requests : ChatToken(r)
    \/ \E r \in Requests : ChatStreamEnd(r)
    \/ \E r \in Requests : ChatStreamError(r)
    \/ \E r \in Requests : ChatDone(r)
    \/ \E r \in Requests : ChatCommit(r)
    \/ \E r \in Requests : ChatErrorEnd(r)
    \/ \E r \in Requests : ChatDisconnect(r)

SpecSessions == InitSessions /\ [][NextSessions]_vars

\* chat requests of one session; the turns of its other requests, those that
\* are not in flight together with the two, are made by add_turn directly
TurnSessions == {"s1"}

InitTurns ==
    /\ InitMemory
    /\ InitStore([index |-> File(SavedIndex), metadata |-> File(SavedMetadata)])
    /\ InitOp

NextTurns ==
    \/ (\A r \in Requests : req[r].pc \in {"new", "closed"})
            /\ \E s \in TurnSessions : AddTurn(s)
    \/ \E r \in Requests, s \in TurnSessions, m \in SessionMessages : ChatStart(r, s, m, "none")
    \/ \E r \in Requests : ChatToken(r)
    \/ \E r \in Requests : ChatStreamEnd(r)
    \/ \E r \in Requests : ChatDone(r)
    \/ \E r \in Requests : ChatCommit(r)

SpecTurns == InitTurns /\ [][NextTurns]_vars

\* streaming requests whose client stays connected and whose LLM stream is
\* finite: a generator that can be resumed is resumed, by the client taking
\* the event it yielded or by the LLM delivering a token, its end or an error
Resume(r) ==
    \/ ChatNoKnowledgeNext(r)
    \/ ChatToken(r)
    \/ ChatStreamEnd(r)
    \/ ChatStreamError(r)
    \/ ChatDone(r)
    \/ ChatCommit(r)
    \/ ChatErrorEnd(r)

NextStream ==
    \/ \E r \in Requests, s \in Sessions, m \in ChatMessages, f \in Failures :
            ChatStart(r, s, m, f)
    \/ \E r \in Requests : Resume(r)

SpecStream ==
    /\ InitChat
    /\ [][NextStream]_vars
    /\ \A r \in Requests : WF_vars(Resume(r))

\* the process before anything was constructed: every handler obtains its
\* handle from get_vector_store / get_memory_manager and then works through it
SingletonSessions == {"s1"}

InitSingletons ==
    /\ histories = EmptyMap
    /\ turnLog = [s \in Sessions |-> <<>>]
    /\ turnNo = [s \in Sessions |-> 0]
    /\ memory_initialized = FALSE
    /\ \E d0 \in ChatDisks : disk = d0
    /\ vector_store = None
    /\ document_metadata = EmptyMap
    /\ initialized = FALSE
    /\ deleted = {}
    /\ InitOp

NextSingletons ==
    \/ GetVectorStore
    \/ GetMemoryManager
    \/ initialized /\ \E id \in DocIds, texts \in FaultyChunkSets, now \in Times : Insert(id, texts, now)
    \/ initialized /\ \E id \in DocIds : DeleteDocument(id)
    \/ memory_initialized /\ \E s \in SingletonSessions : AddTurn(s)
    \/ memory_initialized /\ \E s \in SingletonSessions : ClearSession(s)

SpecSingletons == InitSingletons /\ [][NextSingletons]_vars

(***************************************************************************)
(* Properties of the memory manager.                                       *)
(***************************************************************************)
\* the history get_history returns for the session
HistoryOf(s) == get_history(histories, s)[s]

\* add_turn calls on the session since it was created or last cleared
NTurns(s) == Len(turnLog[s]) \div 2

\* the last n elements of a sequence of at least n elements
Suffix(lst, n) == SubSeq(lst, Len(lst) - n + 1, Len(lst))

\* C1: after N add_turn calls on a session and no clear, get_history returns
\* min(2*N, 20) messages, and they are the most recent messages that were
\* added, in the order they were added.
C1_HistoryIsMostRecent ==
    \A s \in Sessions :
        LET n == Min(2 * NTurns(s), 20)
        IN  /\ Len(HistoryOf(s)) = n
            /\ HistoryOf(s) = Suffix(turnLog[s], n)

\* C1 witness: a session that took more than 10 turns, so that add_turn trimmed it
C1_Witness ==
    \E s \in Sessions :
        /\ lastOp.op = "add_turn" /\ lastOp.session_id = s
        /\ NTurns(s) > 10
        /\ Len(histories[s]) = 20

\* C2: every session's history has even length, holds at most 20 messages and
\* alternates user, assistant from a user message on; each user message is
\* followed by the answer of its own turn, the turns are consecutive and end
\* with the session's latest turn (so a trim dropped the oldest, pair by pair).
C2_HistoryWellFormed ==
    \A s \in DOMAIN histories :
        LET h == histories[s]
        IN  /\ Len(h) % 2 = 0
            /\ Len(h) <= 20
            /\ \A i \in 1..Len(h) :
                  h[i].role = IF i % 2 = 1 THEN "user" ELSE "assistant"
            /\ \A i \in 1..Len(h) :
                  i % 2 = 1 =>
                    /\ h[i].content[1] = "q" /\ h[i + 1].content[1] = "a"
                    /\ h[i].content[2] = s /\ h[i + 1].content[2] = s
                    /\ h[i].content[3] = h[i + 1].content[3]
                    /\ i + 2 <= Len(h) => h[i + 2].content[3] = h[i].content[3] + 1
            /\ h # <<>> => h[Len(h)].content[3] = turnNo[s]

\* C2 witness: a full history right after the add_turn that overflowed it
C2_Witness ==
    \E s \in DOMAIN histories :
        /\ lastOp.op = "add_turn" /\ lastOp.session_id = s
        /\ Len(histories[s]) = 20
        /\ histories[s][1].content[3] > 1

(***************************************************************************)
(* Properties of the vector store.                                         *)
(***************************************************************************)
\* the chunks of the index, in slot order (none when it is uninitialized)
IndexChunks(vs) == IF vs = None THEN <<>> ELSE vs[1]

\* the hit list returns the chunk with this chunk_id
Returns(hits, chunk_id) == \E h \in 1..Len(hits) : hits[h][1].chunk_id = chunk_id

\* the chunks of the index at distance 0 from the query
ExactMatches(vs, query) ==
    {i \in 1..Len(IndexChunks(vs)) : Distance(query, IndexChunks(vs)[i].page_content) = 0}

\* C4: for every document_id of the metadata map, the recorded chunk_count is
\* the number of chunks the index holds for that document_id.
C4_ChunkCountMatchesIndex ==
    \A id \in DOMAIN document_metadata :
        document_metadata[id].chunk_count = Cardinality(SlotsOf(vector_store, id))

\* C5: every chunk of the index belongs to a document that has a record in
\* the metadata map.
C5_NoOrphanChunks ==
    \A i \in 1..Len(IndexChunks(vector_store)) :
        IndexChunks(vector_store)[i].document_id \in DOMAIN document_metadata

\* C6 as stated: right after the insert of a fresh document, get_document
\* reports len(chunks) chunks and a search for any inserted chunk's exact text
\* returns that chunk, for every k and threshold.
C6_ReflexiveRetrievalAsStated ==
    (lastOp.op = "insert" /\ lastOp.fresh) =>
        LET id == lastOp.document_id
            texts == lastOp.texts
        IN  /\ get_document(document_metadata, id) # None
            /\ get_document(document_metadata, id)[1].chunk_count = Len(texts)
            /\ \A i \in 1..Len(texts), k \in Ks, th \in Thresholds :
                  Returns(similarity_search(vector_store, Str(texts[i]), k, th),
                          generate_chunk_id(id, i - 1))

\* C6 amended: right after the insert of a fresh document, get_document
\* reports len(chunks) chunks and every inserted chunk is in the index; a
\* search for an inserted chunk's exact text returns min(k, m) chunks at
\* similarity 1, m being the number of chunks of the index with that text,
\* and returns the inserted chunk itself whenever m <= k.
C6_ReflexiveRetrieval ==
    (lastOp.op = "insert" /\ lastOp.fresh) =>
        LET id == lastOp.document_id
            texts == lastOp.texts
        IN  /\ get_document(document_metadata, id) # None
            /\ get_document(document_metadata, id)[1].chunk_count = Len(texts)
            /\ Cardinality(SlotsOf(vector_store, id)) = Len(texts)
            /\ \A i \in 1..Len(texts), k \in Ks, th \in Thresholds :
                  LET hits == similarity_search(vector_store, Str(texts[i]), k, th)
                      m == Cardinality(ExactMatches(vector_store, Str(texts[i])))
                  IN  /\ \E j \in SlotsOf(vector_store, id) :
                            /\ vector_store[1][j].chunk_id = generate_chunk_id(id, i - 1)
                            /\ vector_store[1][j].page_content = texts[i]
                      /\ Len(hits) >= Min(k, m)
                      /\ \A h \in 1..Min(k, m) :
                            /\ hits[h][1].page_content = texts[i]
                            /\ hits[h][2] = 1000
                            /\ hits[h][2] >= ThresholdOrDefault(th)
                      /\ m <= k => Returns(hits, generate_chunk_id(id, i - 1))

\* C6 witness: a fresh two-chunk document was inserted next to another
\* document's chunk
C6_Witness ==
    /\ lastOp.op = "insert" /\ lastOp.fresh
    /\ Len(lastOp.texts) = 2
    /\ IndexLen(vector_store) = 3

\* C7: an id delete_document returned True for, and that was not inserted
\* since, has no record (get_document finds nothing) and no search returns a
\* chunk of it, for any query, k and threshold.
C7_DeletedStaysGone ==
    \A id \in deleted :
        /\ get_document(document_metadata, id) = None
        /\ \A q \in Queries, k \in Ks, th \in Thresholds :
              LET hits == similarity_search(vector_store, q, k, th)
              IN  \A h \in 1..Len(hits) : hits[h][1].document_id # id

\* C7 witness: a document was deleted and a search still finds another
\* document's chunk
C7_Witness ==
    /\ deleted # {}
    /\ lastOp.op = "similarity_search"
    /\ lastOp.ret # <<>>

\* C8: delete_document for an id that is not in the metadata map returns
\* False and leaves the index, the metadata map and the directory unchanged.
C8_DeleteUnknownIsNoOp ==
    [][(lastOp'.op = "delete_document"
            /\ lastOp'.document_id \notin DOMAIN document_metadata)
        => /\ lastOp'.ret = FALSE
           /\ UNCHANGED <<vector_store, document_metadata, disk>>]_vars

\* C8 witness: delete_document missed on a store that holds another document
C8_Witness ==
    /\ lastOp.op = "delete_document"
    /\ lastOp.ret = FALSE
    /\ document_metadata # EmptyMap
    /\ IndexLen(vector_store) > 0

\* C9: after clear, get_all_documents is empty, every search is empty,
\* is_ready is true and the directory holds no file; an insert that follows
\* stores its record and its chunks, and a search for a chunk's text finds it.
C9_ClearThenInsert ==
    [][/\ lastOp'.op = "clear" =>
            /\ get_all_documents(document_metadata') = {}
            /\ \A q \in Queries, k \in Ks, th \in Thresholds :
                  similarity_search(vector_store', q, k, th) = <<>>
            /\ is_ready(initialized')
            /\ disk' = EmptyDir
       /\ (lastOp.op = "clear" /\ lastOp'.op = "insert") =>
            LET id == lastOp'.document_id
                texts == lastOp'.texts
            IN  /\ get_document(document_metadata', id) # None
                /\ get_all_documents(document_metadata') = {DocMeta(id, texts, 1)}
                /\ \A i \in 1..Len(texts) :
                      Returns(similarity_search(vector_store', Str(texts[i]),
                                                DefaultTopK, None),
                              generate_chunk_id(id, i - 1))
                /\ disk'.index = File(Documents(id, texts))]_vars

\* C9 witness: clear ran on a store that held documents
C9_Witness ==
    /\ lastOp.op = "clear"
    /\ lastOp.deleted_count > 0
    /\ vector_store = None

\* C10: reloading the store from the directory yields the records and the
\* search results of the store in memory.
C10_PersistenceRoundTrip ==
    LET reloaded == load_store(disk)
    IN  /\ get_all_documents(reloaded[2]) = get_all_documents(document_metadata)
        /\ \A id \in DocIds :
              get_document(reloaded[2], id) = get_document(document_metadata, id)
        /\ \A q \in Queries, k \in Ks, th \in Thresholds :
              similarity_search(reloaded[1], q, k, th)
                  = similarity_search(vector_store, q, k, th)

\* C10 witness: a restart after inserts and a delete, with a document left
C10_Witness ==
    /\ lastOp.op = "restart"
    /\ deleted # {}
    /\ document_metadata # EmptyMap
    /\ IndexLen(vector_store) > 0

(***************************************************************************)
(* C3.  Chat requests of one session that overlap in time never corrupt    *)
(* its history: in every reachable state the session's list, and the list  *)
(* every request read when it started, is a sequence of whole turns - a    *)
(* user message directly followed by the assistant reply of the same       *)
(* request - one turn per request that reached add_turn, so no two pairs   *)
(* are interleaved and no reader sees a user message without its reply.    *)
(***************************************************************************)
Started(r) == req[r].pc # "new"

Completed(r) == req[r].pc = "closed" /\ req[r].outcome = "completed"

CompletedOn(s) == {r \in Requests : Completed(r) /\ req[r].session_id = s}

\* h is made of whole turns, each the turn of a completed request on s
WholeTurns(h, s) ==
    /\ Len(h) % 2 = 0
    /\ Len(h) <= 2 * Cardinality(CompletedOn(s))
    /\ \A i \in 1..(Len(h) \div 2) :
          \E r \in CompletedOn(s) :
              /\ h[2 * i - 1] = UserMsg(req[r].message)
              /\ h[2 * i] = AssistantMsg(AnswerOf(r))

C3_ConcurrentTurnsStayWhole ==
    /\ \A s \in Sessions :
          /\ WholeTurns(HistoryOf(s), s)
          /\ Len(HistoryOf(s)) = 2 * Cardinality(CompletedOn(s))
    /\ \A r \in Requests :
          Started(r) => WholeTurns(req[r].conversation_history, req[r].session_id)

\* two requests of one session that both started on the empty history (so
\* they overlapped) and both committed; their replies differ
C3_Witness ==
    \E s \in Sessions :
        /\ CompletedOn(s) = Requests
        /\ \A r \in Requests : req[r].conversation_history = <<>>
        /\ Len(HistoryOf(s)) = 2 * Cardinality(Requests)
        /\ HistoryOf(s)[2] # HistoryOf(s)[4]

(***************************************************************************)
(* C11.  An insert or delete_document whose save of the index or of the    *)
(* metadata failed does not report success: it raises to its caller, and   *)
(* the index and the metadata map in memory keep the change.               *)
(***************************************************************************)
SaveFailed == lastOp.op \in {"insert_save_fails", "delete_save_fails"}

C11_SaveFailureSurfaced ==
    SaveFailed =>
        /\ lastOp.raised
        /\ IF lastOp.op = "insert_save_fails"
           THEN /\ lastOp.document_id \in DOMAIN document_metadata
                /\ SlotsOf(vector_store, lastOp.document_id) # {}
           ELSE /\ lastOp.document_id \notin DOMAIN document_metadata
                /\ SlotsOf(vector_store, lastOp.document_id) = {}

(***************************************************************************)
(* C12.  A start on a directory whose index file is absent, or whose index *)
(* cannot be loaded, ends with the store uninitialized, an empty metadata  *)
(* map and is_ready() true, whatever metadata.json holds.                  *)
(***************************************************************************)
JustStarted == lastOp.op \in {"init", "restart"}

C12_StartupNeverFails ==
    (JustStarted /\ disk.index \in {Absent, Corrupt}) =>
        /\ vector_store = None
        /\ document_metadata = EmptyMap
        /\ is_ready(initialized)

\* a start on an unreadable index next to a readable metadata.json
C12_Witness ==
    /\ JustStarted
    /\ disk.index = Corrupt
    /\ disk.metadata.state = "ok"
    /\ vector_store = None

(***************************************************************************)
(* C13.  Insert, delete_document and clear are mutually exclusive: in no   *)
(* reachable state are two tasks both between a mutation's first read of   *)
(* the index or the metadata and the end of its persistence step.          *)
(***************************************************************************)
C13_MutationsMutuallyExclusive ==
    Cardinality({t \in Tasks : InMutation(t)}) <= 1

\* an insert is between its index update and its save while a second upload
\* has been read and waits to enter add_documents
C13_Witness ==
    \E t, u \in Tasks :
        /\ t # u
        /\ task[t].pc = "index_added"
        /\ task[u].pc = "await_read"

(***************************************************************************)
(* C14.  A search or a metadata query that runs while an insert, delete or *)
(* clear request is in flight never sees a torn state: no mutation is      *)
(* part-way through when it reads, and the index it reads holds no chunk   *)
(* of a document that the metadata map lacks.                              *)
(***************************************************************************)
ConcurrentRead == lastOp.op = "task_read" /\ lastOp.seen.in_flight # {}

C14_NoTornRead ==
    ConcurrentRead =>
        /\ ~lastOp.seen.mid_mutation
        /\ lastOp.seen.orphans = {}

(***************************************************************************)
(* C15.  similarity_search(query, k, score_threshold) returns at most k    *)
(* hits, each with a similarity of at least score_threshold (the           *)
(* configured one when none is passed), in descending order of similarity, *)
(* and returns the empty list when the index is uninitialized or no chunk  *)
(* of it reaches the threshold.                                            *)
(***************************************************************************)
ThresholdAsked(score_threshold) ==
    IF score_threshold = None THEN DefaultThreshold ELSE score_threshold[1]

\* the slots of the index whose similarity to the query reaches the threshold
Clearing(query, threshold) ==
    {i \in 1..IndexLen(vector_store) :
        Similarity(Distance(query, vector_store[1][i].page_content)) >= threshold}

C15_SearchContract ==
    lastOp.op = "similarity_search" =>
        LET ret == lastOp.ret
            threshold == ThresholdAsked(lastOp.score_threshold)
        IN  /\ Len(ret) <= lastOp.k
            /\ \A i \in 1..Len(ret) : ret[i][2] >= threshold
            /\ \A i, j \in 1..Len(ret) : i < j => ret[i][2] >= ret[j][2]
            /\ (vector_store = None \/ Clearing(lastOp.query, threshold) = {})
                   => ret = <<>>

\* a search that returned two hits, the nearer first
C15_Witness ==
    /\ lastOp.op = "similarity_search"
    /\ Len(lastOp.ret) = 2
    /\ lastOp.ret[1][2] > lastOp.ret[2][2]
    /\ lastOp.k = DefaultTopK

(***************************************************************************)
(* C16.  retrieve reports has_relevant_content = false exactly when the    *)
(* store's search returned no hit, and then with the empty context, no     *)
(* sources and top_score 0; in every RetrievalResult has_relevant_content  *)
(* is true exactly when sources is non-empty.                              *)
(***************************************************************************)
Retrieved == lastOp.op \in {"retrieve", "retrieve_with_history"}

C16_NoHitNoRelevantContent ==
    /\ lastOp.op = "retrieve" =>
          /\ ~lastOp.ret.has_relevant_content <=> lastOp.hits = <<>>
          /\ lastOp.hits = <<>> =>
                /\ lastOp.ret.context = <<>>
                /\ lastOp.ret.sources = <<>>
                /\ lastOp.ret.top_score = 0
    /\ Retrieved => (lastOp.ret.has_relevant_content <=> lastOp.ret.sources # <<>>)

\* a retrieve over an index that holds chunks, none of which cleared the
\* threshold
C16_Witness ==
    /\ lastOp.op = "retrieve"
    /\ IndexLen(vector_store) > 0
    /\ lastOp.hits = <<>>
    /\ ~lastOp.ret.has_relevant_content

(***************************************************************************)
(* C17.  When the store's search returned n >= 1 hits, retrieve returns n  *)
(* SourceReferences in the order of the hits, the context made of the n    *)
(* chunk texts in that order with the separator between them, and          *)
(* top_score equal to the greatest similarity of the hits, in (0, 1].      *)
(***************************************************************************)
C17_SourcesContextTopScore ==
    (lastOp.op = "retrieve" /\ lastOp.hits # <<>>) =>
        LET hits == lastOp.hits
            ret == lastOp.ret
            n == Len(hits)
        IN  /\ Len(ret.sources) = n
            /\ \A i \in 1..n :
                  /\ ret.sources[i].chunk_id = hits[i][1].chunk_id
                  /\ ret.sources[i].document = hits[i][1].filename
            /\ Len(ret.context) = 2 * n - 1
            /\ \A i \in 1..n : ret.context[2 * i - 1] = hits[i][1].page_content
            /\ \A i \in 1..(n - 1) : ret.context[2 * i] = Separator
            /\ \E i \in 1..n : ret.top_score = hits[i][2]
            /\ \A i \in 1..n : ret.top_score >= hits[i][2]
            /\ ret.top_score > 0 /\ ret.top_score <= 1000

\* a retrieve with two hits of different texts and similarities
C17_Witness ==
    /\ lastOp.op = "retrieve"
    /\ Len(lastOp.hits) = 2
    /\ lastOp.hits[1][2] > lastOp.hits[2][2]
    /\ lastOp.ret.context = <<"sky", Separator, "stock">>

(***************************************************************************)
(* C18.  The content_preview of every SourceReference is the first 150     *)
(* characters of the chunk's text, the whole text when it has at most 150. *)
(***************************************************************************)
First150(text) == [of |-> text, chars |-> Min(TextLen(text), 150), suffix |-> ""]

C18_PreviewIsFirst150 ==
    lastOp.op = "retrieve" =>
        \A i \in 1..Len(lastOp.hits) :
            lastOp.ret.sources[i].content_preview = First150(lastOp.hits[i][1].page_content)

(***************************************************************************)
(* C19.  retrieve_with_history searches with "Context: " followed by the   *)
(* conversation context, a blank line, "Question: " and the query when the *)
(* context is non-empty, and with the query itself when it is empty; with  *)
(* an empty context its result is that of retrieve(query, k).              *)
(***************************************************************************)
C19_EnhancedQuery ==
    lastOp.op = "retrieve_with_history" =>
        LET ctx == lastOp.conversation_context
        IN  /\ ctx # <<>> =>
                  /\ lastOp.searched = <<"Context: ", ctx, "\n\nQuestion: ">> \o lastOp.query
                  /\ lastOp.ret = retrieve(vector_store, lastOp.searched, lastOp.k, None)
            /\ ctx = <<>> =>
                  /\ lastOp.searched = lastOp.query
                  /\ lastOp.ret = retrieve(vector_store, lastOp.query, lastOp.k, None)

\* a query that scores lower once the context is put before it
C19_Witness ==
    /\ lastOp.op = "retrieve_with_history"
    /\ lastOp.conversation_context # <<>>
    /\ lastOp.ret.has_relevant_content
    /\ retrieve(vector_store, lastOp.query, lastOp.k, None).top_score > lastOp.ret.top_score

(***************************************************************************)
(* C20.  get_recent_context(session_id, n_turns) renders the last          *)
(* n_turns*2 messages of the session's history (all of them when it has    *)
(* fewer), each as "Human: ..." for a user message and "Assistant: ..."    *)
(* for an assistant message, in history order, and returns the empty       *)
(* string for a session without history.                                   *)
(***************************************************************************)
Rendered(msg) == <<IF msg.role = "user" THEN "Human" ELSE "Assistant", msg.content>>

\* the lines for the last `count` messages of h
LastRendered(h, count) ==
    LET m == Min(count, Len(h))
    IN  [i \in 1..m |-> Rendered(h[Len(h) - m + i])]

C20_RecentContextRendering ==
    lastOp.op = "get_recent_context" =>
        lastOp.ret = LastRendered(HistoryOf(lastOp.session_id), lastOp.n_turns * 2)

(***************************************************************************)
(* C21.  get_history of an unseen session id returns the empty history and *)
(* creates the session, so that list_sessions holds the id afterwards;     *)
(* get_recent_context does the same (returning the empty string), and so a *)
(* chat request for an unseen session registers it, whether or not the     *)
(* request later commits a turn.                                           *)
(***************************************************************************)
Unseen(s) == s \notin list_sessions(histories)

Registered(s) == s \in list_sessions(histories') /\ histories'[s] = <<>>

\* request r runs its first stretch in this step
Starts(r) == req[r].pc = "new" /\ req'[r].pc # "new"

C21_LazySessionCreation ==
    [][/\ \A s \in Sessions :
            (Unseen(s) /\ lastOp'.op \in {"get_history", "get_recent_context"}
                       /\ lastOp'.session_id = s)
                => (lastOp'.ret = <<>> /\ Registered(s))
       /\ \A r \in Requests :
            (Starts(r) /\ Unseen(req'[r].session_id)) => Registered(req'[r].session_id)
      ]_vars

\* a request for an unseen session ended with an error event and committed
\* nothing; its session is listed with an empty history
C21_Witness ==
    \E r \in Requests :
        /\ req[r].pc = "closed"
        /\ req[r].outcome = "error"
        /\ req[r].conversation_history = <<>>
        /\ req[r].session_id \in list_sessions(histories)
        /\ histories[req[r].session_id] = <<>>
        /\ turnNo[req[r].session_id] = 0

(***************************************************************************)
(* C22.  clear_session(session_id) returns true exactly when the session   *)
(* existed before the call; afterwards the session is not listed and every *)
(* other session is as it was; an add_turn on a cleared id starts from an  *)
(* empty history.                                                          *)
(***************************************************************************)
SameSession(b) ==
    /\ b \in DOMAIN histories <=> b \in DOMAIN histories'
    /\ b \in DOMAIN histories => histories'[b] = histories[b]

C22_ClearSession ==
    [][\A s \in Sessions :
        /\ (lastOp'.op = "clear_session" /\ lastOp'.session_id = s) =>
              /\ lastOp'.ret <=> s \in list_sessions(histories)
              /\ s \notin list_sessions(histories')
              /\ \A b \in Sessions \ {s} : SameSession(b)
        /\ (lastOp'.op = "add_turn" /\ lastOp'.session_id = s
                /\ turnNo[s] > 0 /\ Unseen(s)) =>
              histories'[s] = <<UserMsg(<<"q", s, turnNo'[s]>>),
                                AssistantMsg(<<"a", s, turnNo'[s]>>)>>
      ]_vars

\* a session that had turns was cleared with true returned while the other
\* session keeps its turns
C22_Witness ==
    /\ lastOp.op = "clear_session"
    /\ lastOp.ret
    /\ turnNo[lastOp.session_id] > 0
    /\ lastOp.session_id \notin list_sessions(histories)
    /\ \E b \in Sessions \ {lastOp.session_id} :
          b \in list_sessions(histories) /\ Len(histories[b]) >= 2

(***************************************************************************)
(* C23.  A chat request changes its session's history only by appending    *)
(* one whole pair, its message and its full answer, and only once          *)
(* generation has finished; a request whose generation raises or whose     *)
(* client disconnects leaves the history as it was.                        *)
(***************************************************************************)
HistoryAfter(s) == get_history(histories', s)[s]

\* request r finishes in this step with the given outcomes
Ends(r, outcomes) ==
    req[r].pc # "closed" /\ req'[r].pc = "closed" /\ req'[r].outcome \in outcomes

\* the answer request r has generated in full once it completes
FullAnswer(r) ==
    IF req'[r].retrieval_result.has_relevant_content
    THEN req'[r].full_response
    ELSE no_knowledge

C23_CommitOnlyWholeTurn ==
    [][\A s \in Sessions :
        /\ HistoryAfter(s) # HistoryOf(s) =>
              \E r \in Requests :
                  /\ req[r].pc \in {"sent_done", "generating"}
                  /\ req[r].session_id = s
                  /\ Ends(r, {"completed"})
                  /\ HistoryAfter(s) =
                        HistoryOf(s) \o <<UserMsg(req[r].message),
                                          AssistantMsg(FullAnswer(r))>>
        /\ \A r \in Requests :
              (Ends(r, {"error", "cancelled"}) /\ req'[r].session_id = s)
                  => HistoryAfter(s) = HistoryOf(s)
      ]_vars

\* a request cancelled after it had streamed part of its answer, its session
\* still without a message
C23_Witness ==
    \E r \in Requests :
        /\ req[r].pc = "closed"
        /\ req[r].outcome = "cancelled"
        /\ Len(req[r].full_response) >= 1
        /\ HistoryOf(req[r].session_id) = <<>>

(***************************************************************************)
(* C24.  In a streaming chat request a failure of retrieval, of the        *)
(* provider's construction or of the LLM stream is surfaced as an error    *)
(* event that is the last event of the stream: a stream that failed ends   *)
(* with it, and no event, in particular no done event, follows an error    *)
(* event.                                                                  *)
(***************************************************************************)
Streaming(r) == Started(r) /\ "endpoint" \notin DOMAIN req[r]

Failed(r) ==
    \/ req[r].pc = "sent_error"
    \/ req[r].pc = "closed" /\ req[r].outcome = "error"

C24_ErrorEventIsTerminal ==
    \A r \in Requests :
        Streaming(r) =>
            LET events == req[r].events
            IN  /\ \A i \in 1..Len(events) : events[i].type = "error" => i = Len(events)
                /\ Failed(r) => (events # <<>> /\ events[Len(events)].type = "error")

\* a stream that failed after its first token and ended with the error event
C24_Witness ==
    \E r \in Requests :
        /\ Streaming(r)
        /\ req[r].pc = "closed"
        /\ req[r].outcome = "error"
        /\ Len(req[r].events) >= 2
        /\ req[r].events[1].type = "token"
        /\ req[r].events[Len(req[r].events)].type = "error"

(***************************************************************************)
(* C25.  Whenever the index holds no vector the store is uninitialized,    *)
(* its index handle absent, also after delete_document removed the last    *)
(* document.                                                               *)
(***************************************************************************)
C25_EmptyIndexIsUninitialized ==
    IndexLen(vector_store) = 0 => vector_store = None

(***************************************************************************)
(* C26.  Deleting the last document does not forbid inserts: an insert     *)
(* into a store that inserts and deletes left without documents succeeds,  *)
(* get_document returns its document, and a search for the text of each of *)
(* its chunks returns that chunk.                                          *)
(***************************************************************************)
C26_InsertAfterLastDelete ==
    [][(lastOp'.op = "insert" /\ deleted # {} /\ get_all_documents(document_metadata) = {})
        => LET id == lastOp'.document_id
               texts == lastOp'.texts
           IN  /\ get_document(document_metadata', id) # None
               /\ get_document(document_metadata', id)[1].chunk_count = Len(texts)
               /\ \A i \in 1..Len(texts) :
                     Returns(similarity_search(vector_store', Str(texts[i]),
                                               DefaultTopK, None),
                             generate_chunk_id(id, i - 1))
      ]_vars

\* the only document of the store was inserted after the index had been
\* emptied by a delete
C26_Witness ==
    /\ lastOp.op = "insert"
    /\ deleted # {}
    /\ DOMAIN document_metadata = {lastOp.document_id}
    /\ IndexLen(vector_store) = Len(lastOp.texts)
    /\ disk.index = File(vector_store[1])

(***************************************************************************)
(* C27.  `Not found` never raises: delete_document, get_document and       *)
(* clear_session of any id return a boolean or None in every state and     *)
(* under every interleaving of the handlers, and of two concurrent         *)
(* delete_document calls for one present id exactly one returns true: a    *)
(* delete returns false only for an id the metadata lacks, and true at     *)
(* most once per insert of the id.                                         *)
(***************************************************************************)
C27_NotFoundNeverRaises ==
    [][/\ lastOp'.op # "task_delete_raised"
       /\ lastOp'.op = "task_delete" =>
             /\ lastOp'.ret \in BOOLEAN
             /\ lastOp'.ret => lastOp'.document_id \notin deleted
             /\ ~lastOp'.ret => lastOp'.document_id \notin DOMAIN document_metadata
       /\ lastOp'.op = "get_document" =>
             (lastOp'.ret = None <=> lastOp'.document_id \notin DOMAIN document_metadata)
       /\ lastOp'.op = "clear_session" =>
             (lastOp'.ret <=> lastOp'.session_id \in DOMAIN histories)
      ]_vars

\* the second of two deletes of one id, which the first had removed,
\* returned false
C27_Witness ==
    /\ lastOp.op = "task_delete"
    /\ ~lastOp.ret
    /\ lastOp.document_id \in deleted

\* C28: the vector store and the memory manager are initialized exactly once:
\* a construction runs the initialization exactly when none ran before, the
\* instance stays initialized, and a construction after that returns the
\* instance as it is, with its index, its metadata and its histories
C28_SingletonsInitializedOnce ==
    [][/\ (initialized => initialized') /\ (memory_initialized => memory_initialized')
       /\ lastOp'.op = "get_vector_store" =>
            /\ initialized'
            /\ lastOp'.ran_initialize <=> ~initialized
            /\ initialized => UNCHANGED <<vector_store, document_metadata, disk>>
       /\ lastOp'.op = "get_memory_manager" =>
            /\ memory_initialized'
            /\ lastOp'.ran_initialize <=> ~memory_initialized
            /\ memory_initialized => UNCHANGED histories]_vars

\* a later get_memory_manager() returned the instance with the turns written
\* through an earlier handle, the store holding an inserted document
C28_Witness ==
    /\ lastOp.op = "get_memory_manager" /\ ~lastOp.ran_initialize
    /\ \E s \in DOMAIN histories : Len(histories[s]) >= 2
    /\ initialized /\ IndexLen(vector_store) > 0 /\ "d2" \in DOMAIN document_metadata

(***************************************************************************)
(* C29.  Sessions are isolated: a step of add_turn, get_history,           *)
(* get_recent_context or clear_session on one session, made directly or by *)
(* a chat request of that session, leaves every other session listed or    *)
(* not as it was and with the history it had, whatever the requests of the *)
(* other sessions are doing meanwhile.                                     *)
(***************************************************************************)
\* the session the step that was just made works on
SessionOfStep ==
    IF lastOp'.op \in {"add_turn", "get_history", "get_recent_context", "clear_session"}
        THEN {lastOp'.session_id}
    ELSE IF lastOp'.op = "chat" THEN {req'[lastOp'.request].session_id}
    ELSE {}

C29_SessionsIsolated ==
    [][\A a \in SessionOfStep : \A b \in Sessions \ {a} : SameSession(b)]_vars

\* a request committed its turn to its session while a request of the other
\* session is in flight, and the other session is listed without any message
C29_Witness ==
    /\ lastOp.op = "chat"
    /\ req[lastOp.request].pc = "closed"
    /\ req[lastOp.request].outcome = "completed"
    /\ Len(histories[req[lastOp.request].session_id]) = 2
    /\ \E r \in Requests \ {lastOp.request} :
          /\ req[r].pc \notin {"new", "closed"}
          /\ req[r].session_id # req[lastOp.request].session_id
          /\ req[r].session_id \in list_sessions(histories)
          /\ histories[req[r].session_id] = <<>>

(***************************************************************************)
(* C30.  Within one session no committed turn is lost: every step that     *)
(* commits a turn - a chat request reaching add_turn, or a direct add_turn *)
(* - appends its pair behind everything the session's history held before  *)
(* the step, only the oldest messages beyond 20 being dropped, and no      *)
(* other step removes or reorders a message; so the pairs stand in the     *)
(* history in the order their add_turn calls completed.                    *)
(***************************************************************************)
\* request r commits its turn in this step
Commits(r) ==
    /\ ~Completed(r)
    /\ req'[r].pc = "closed" /\ req'[r].outcome = "completed"

\* the pairs that the step commits to session s
TurnsOfStep(s) ==
    {<<UserMsg(req'[r].message),
       AssistantMsg(IF req'[r].retrieval_result.has_relevant_content
                    THEN req'[r].full_response ELSE no_knowledge)>> :
        r \in {q \in Requests : Commits(q) /\ req'[q].session_id = s}}
    \cup (IF lastOp'.op = "add_turn" /\ lastOp'.session_id = s /\ turnNo'[s] = turnNo[s] + 1
          THEN {<<UserMsg(<<"q", s, turnNo'[s]>>), AssistantMsg(<<"a", s, turnNo'[s]>>)>>}
          ELSE {})

\* the most recent 20 messages of h
Capped(h) == IF Len(h) > 20 THEN Suffix(h, 20) ELSE h

C30_NoCommittedTurnLost ==
    [][\A s \in Sessions :
        IF TurnsOfStep(s) = {}
        THEN s \in DOMAIN histories =>
                s \in DOMAIN histories' /\ histories'[s] = histories[s]
        ELSE /\ Cardinality(TurnsOfStep(s)) = 1
             /\ s \in DOMAIN histories'
             /\ Len(histories'[s]) = Min(Len(HistoryOf(s)) + 2, 20)
             /\ \E turn \in TurnsOfStep(s) :
                    histories'[s] = Capped(HistoryOf(s) \o turn)
      ]_vars

\* two requests of one session that both started on the same full history,
\* so that they overlapped, and both committed: the history ends with their
\* two pairs and the cap dropped the two oldest pairs
C30_Witness ==
    \E s \in Sessions :
        /\ CompletedOn(s) = Requests
        /\ \A r \in Requests :
              /\ Len(req[r].conversation_history) = 20
              /\ req[r].conversation_history = req["r1"].conversation_history
        /\ Len(histories[s]) = 20
        /\ histories[s][1] = req["r1"].conversation_history[5]
        /\ \A i \in {17, 19} : \E r \in Requests : histories[s][i] = UserMsg(req[r].message)
        /\ histories[s][18].content # histories[s][20].content

(***************************************************************************)
(* C31.  A session that exists stays listed, with its history, through     *)
(* every step that is not clear_session of its id or clear_all: the other  *)
(* operations leave its messages alone, except add_turn on the session     *)
(* itself, which extends the history by one pair and keeps at most 20.     *)
(***************************************************************************)
\* the step that was just made is clear_session(s) or clear_all
Clears(s) ==
    \/ lastOp'.op = "clear_session" /\ lastOp'.session_id = s
    \/ lastOp'.op = "clear_all"

C31_SessionStaysUntilCleared ==
    [][\A s \in list_sessions(histories) :
        ~Clears(s) =>
            /\ s \in list_sessions(histories')
            /\ IF lastOp'.op = "add_turn" /\ lastOp'.session_id = s
               THEN Len(histories'[s]) = Min(Len(histories[s]) + 2, 20)
               ELSE histories'[s] = histories[s]
      ]_vars

\* a session that was created by a read took so many turns that add_turn
\* trimmed it, and it is still listed next to a session that has no message
C31_Witness ==
    \E s \in list_sessions(histories) :
        /\ lastOp.op = "add_turn" /\ lastOp.session_id = s
        /\ turnNo[s] > 10 /\ Len(turnLog[s]) > 20
        /\ Len(histories[s]) = 20
        /\ \E b \in list_sessions(histories) \ {s} : histories[b] = <<>>

(***************************************************************************)
(* C32.  Every chat request works in the order read, retrieve, generate,   *)
(* add_turn: the step that starts it reads the context and the history of  *)
(* its session as they are before the request added anything and          *)
(* retrieves with that context; these stay what the request works with;    *)
(* and a turn is added only by the step that ends a request whose          *)
(* generation has finished.  So what retrieval and generation are given    *)
(* holds neither the request's message nor its answer.                     *)
(***************************************************************************)
C32_ReadRetrieveGenerateCommit ==
    [][/\ \A r \in Requests :
            /\ Starts(r) =>
                  LET s == req'[r].session_id
                  IN  /\ req'[r].conversation_history = HistoryOf(s)
                      /\ req'[r].conversation_context =
                            get_recent_context(histories, s, DefaultNTurns)
                      /\ req'[r].retrieval_result # None =>
                            req'[r].retrieval_result =
                               retrieve_with_history(vector_store, req'[r].message,
                                                     req'[r].conversation_context, None)
                      /\ HistoryAfter(s) = HistoryOf(s)
            /\ (Started(r) /\ req'[r].pc # "new") =>
                  /\ req'[r].conversation_history = req[r].conversation_history
                  /\ req'[r].conversation_context = req[r].conversation_context
                  /\ req'[r].retrieval_result = req[r].retrieval_result
                  /\ req'[r].message = req[r].message
            /\ Commits(r) =>
                  /\ req[r].pc \in {"sent_done", "generating"}
                  /\ Len(HistoryAfter(req[r].session_id))
                        = Len(HistoryOf(req[r].session_id)) + 2
       /\ \A s \in Sessions :
            HistoryAfter(s) # HistoryOf(s) =>
                \E r \in Requests : Commits(r) /\ req[r].session_id = s
      ]_vars

\* a request that read one earlier turn, retrieved with it and generated has
\* committed: its turn stands behind the turn it read
C32_Witness ==
    \E r \in Requests :
        /\ Completed(r)
        /\ req[r].retrieval_result.has_relevant_content
        /\ Len(req[r].conversation_history) = 2
        /\ req[r].conversation_context # <<>>
        /\ Len(histories[req[r].session_id]) = 4
        /\ SubSeq(histories[req[r].session_id], 1, 2) = req[r].conversation_history
        /\ histories[req[r].session_id][3] = UserMsg(req[r].message)

(***************************************************************************)
(* C33.  Concurrent inserts of distinct documents lose nothing: no step of *)
(* an insert touches the record or the chunks of another document, and     *)
(* when the insert returns its record is in the metadata map, its chunks   *)
(* are in the index, and the directory reloads to the index and the map in *)
(* memory - so after both have returned both documents are in the map, in  *)
(* the index and on disk, also when both arrived at an uninitialized store.*)
(***************************************************************************)
\* the chunks of the document in the index, in slot order
ChunksOf(vs, document_id) ==
    SelectSeq(IndexChunks(vs), LAMBDA c : c.document_id = document_id)

\* task t makes a step of add_documents
InsertStep(t) ==
    /\ task[t].pc \in {"await_read", "index_added", "metadata_set"}
    /\ task'[t] # task[t]

C34_DiskDescribesOneDocumentSet ==
    LET reloaded == load_store(disk)
    IN  \A d \in DocIds :
            SlotsOf(reloaded[1], d) # {} <=> d \in DOMAIN reloaded[2]

(***************************************************************************)
(* C35.  retrieve honours the parameters it is passed, 0 included: with k  *)
(* and score_threshold as passed (the configured 5 and 0.3 only where one  *)
(* is omitted) it returns at most k sources, namely every chunk among the  *)
(* k nearest whose similarity reaches the threshold.                       *)
(***************************************************************************)
\* the value a parameter stands for: the passed one, the default if omitted
Passed(parameter, default) == IF parameter = None THEN default ELSE parameter[1]

C35_ExplicitParametersHonoured ==
    lastOp.op = "retrieve" =>
        LET k == Passed(lastOp.k, DefaultTopK)
            threshold == Passed(lastOp.score_threshold, DefaultThreshold)
            expected ==
                IF vector_store = None THEN <<>>
                ELSE FilterByThreshold(
                        similarity_search_with_score(vector_store[1], lastOp.query, k),
                        threshold)
        IN  /\ Len(lastOp.ret.sources) <= k
            /\ Len(lastOp.ret.sources) = Len(expected)
            /\ \A i \in 1..Len(expected) :
                  lastOp.ret.sources[i].chunk_id = expected[i][1].chunk_id

(***************************************************************************)
(* C36.  get_recent_context(session_id, n_turns) renders at most 2*n_turns *)
(* messages for every n_turns >= 0 and every history; with n_turns = 0 it  *)
(* returns the empty string.                                               *)
(***************************************************************************)
C36_AtMostTwiceNTurns ==
    lastOp.op = "get_recent_context" =>
        /\ Len(lastOp.ret) <= 2 * lastOp.n_turns
        /\ lastOp.n_turns = 0 => lastOp.ret = <<>>

(***************************************************************************)
(* C37.  The streaming and the synchronous endpoint leave the memory in    *)
(* the same state: the step in which a request of either endpoint ends     *)
(* without failure appends the request's turn to its session - its message *)
(* with the generated answer when retrieval found relevant content, its    *)
(* message with the no-knowledge reply when it found none.                 *)
(***************************************************************************)
\* request r ends in this step, answered and not failed or cancelled
EndsAnswered(r) ==
    /\ req[r].pc # "closed"
    /\ req'[r].pc = "closed"
    /\ req'[r].outcome \in {"completed", "no_knowledge"}

C37_EndpointsLeaveSameMemory ==
    [][\A r \in Requests :
        EndsAnswered(r) =>
            LET s == req'[r].session_id
                answer == IF req'[r].retrieval_result.has_relevant_content
                          THEN req'[r].full_response ELSE no_knowledge
            IN  /\ Len(HistoryAfter(s)) = Len(HistoryOf(s)) + 2
                /\ HistoryAfter(s) = HistoryOf(s) \o <<UserMsg(req'[r].message),
                                                       AssistantMsg(answer)>>
      ]_vars

(***************************************************************************)
(* C38.  The LLM is used only by requests whose retrieval found relevant   *)
(* content.  A request whose retrieval found none constructs no provider   *)
(* and makes no generation call - it never waits for the LLM, holds no     *)
(* generated token and meets no provider or LLM error - and it answers     *)
(* with the no-knowledge reply, no sources and confidence 0, on the stream *)
(* as in the synchronous response.                                         *)
(***************************************************************************)
\* request r constructed a provider or called the LLM
LlmInvoked(r) ==
    \/ req[r].pc \in {"streaming", "generating"}
    \/ req[r].full_response # <<>>
    \/ \E i \in 1..Len(req[r].events) : req[r].events[i].type = "error"

\* request r has its retrieval result
Retrieves(r) == Started(r) /\ req[r].retrieval_result # None

C38_LlmOnlyWhenRelevant ==
    \A r \in Requests :
        Retrieves(r) =>
            /\ LlmInvoked(r) => req[r].retrieval_result.has_relevant_content
            /\ ~req[r].retrieval_result.has_relevant_content =>
                  LET events == req[r].events
                  IN  /\ \A i \in 1..Len(events) : events[i].type # "error"
                      /\ \A i \in 1..Len(events) :
                            /\ events[i].type = "token" =>
                                  i <= Len(NoKnowledgeWords)
                                     /\ events[i].payload = NoKnowledgeWords[i]
                            /\ events[i].type = "sources" => events[i].payload = <<>>
                            /\ events[i].type = "done" => events[i].payload = 0
                      /\ Completed(r) => Len(events) = Len(NoKnowledgeWords) + 2
                      /\ (req[r].pc = "closed" /\ req[r].outcome = "no_knowledge") =>
                            req[r].response = no_knowledge_response

\* over an index that holds a chunk, a streamed request whose message is far
\* from it has sent the whole no-knowledge answer, and a synchronous one has
\* returned it
C38_Witness ==
    /\ IndexLen(vector_store) > 0
    /\ \E r, q \in Requests :
          /\ Completed(r)
          /\ ~req[r].retrieval_result.has_relevant_content
          /\ req[r].events[Len(req[r].events)] = Event("done", 0)
          /\ req[q].pc = "closed" /\ req[q].outcome = "no_knowledge"
          /\ req[q].response.confidence = 0

(***************************************************************************)
(* C39.  The events of a streaming response come in the order token*,      *)
(* sources, done: every event before the sources event is a token, nothing *)
(* but the done event follows the sources event and nothing follows the    *)
(* done event, whose confidence is the retrieval's top_score; a response   *)
(* that completed sent exactly one sources and one done event; the turn is *)
(* added by the step that resumes the generator after the done event; and  *)
(* with a client that stays connected and a finite LLM stream every        *)
(* started stream comes to end with a done or an error event.              *)
(***************************************************************************)
\* the positions of the events of the type in the stream of r
EventsOfType(r, type) == {i \in 1..Len(req[r].events) : req[r].events[i].type = type}

\* the last event the stream of r yielded is of one of the types
EndsWith(r, types) ==
    /\ Started(r)
    /\ req[r].events # <<>>
    /\ req[r].events[Len(req[r].events)].type \in types

EventOrder(r) ==
    LET events == req[r].events
        n == Len(events)
    IN  /\ \A i \in 1..n : events[i].type \in {"token", "sources", "done", "error"}
        /\ \A i \in EventsOfType(r, "sources") :
              /\ \A j \in 1..(i - 1) : events[j].type = "token"
              /\ i < n => (i + 1 = n /\ events[n].type = "done")
        /\ \A i \in EventsOfType(r, "done") :
              /\ i = n
              /\ i > 1 /\ events[i - 1].type = "sources"
              /\ events[i].payload = req[r].retrieval_result.top_score
        /\ Completed(r) =>
              /\ Cardinality(EventsOfType(r, "sources")) = 1
              /\ Cardinality(EventsOfType(r, "done")) = 1
              /\ EndsWith(r, {"done"})

C39_StreamEventOrder ==
    /\ [](\A r \in Requests : Streaming(r) => EventOrder(r))
    /\ [][\A r \in Requests :
            Commits(r) => (req[r].pc = "sent_done" /\ EndsWith(r, {"done"}))]_vars
    /\ \A r \in Requests : Streaming(r) ~> EndsWith(r, {"done", "error"})

\* a response that streamed two tokens, the sources and the done event with
\* the top score of its retrieval has completed, and its turn is in memory
C39_Witness ==
    \E r \in Requests :
        /\ Completed(r)
        /\ Len(req[r].events) = 4
        /\ req[r].events[1].type = "token" /\ req[r].events[2].type = "token"
        /\ req[r].events[3] = Event("sources", req[r].retrieval_result.sources)
        /\ req[r].events[4].type = "done"
        /\ req[r].events[4].payload = req[r].retrieval_result.top_score
        /\ req[r].retrieval_result.top_score > 0
        /\ Len(histories[req[r].session_id]) >= 2

====
